---- MODULE Spec2Model ----
(***************************************************************************)
(* AI vs AI Tetris Arena: the grid and piece rules (game_engine.py), the   *)
(* figure bank (bank.py), the placement search (ai_agent.py) and the match *)
(* loop (arena.py).                                                        *)
(*                                                                         *)
(* Python lists are modelled as sequences, so the cell grid[y][x] of the   *)
(* source is grid[y + 1][x + 1] here; offsets x, y and rotation counts     *)
(* keep their 0-based source values.  Wall-clock samples (decision_times,  *)
(* timestamps) are not part of the model.                                  *)
(***************************************************************************)
EXTENDS Integers, Sequences, FiniteSets, TLC

\* ------------------------------------------------------------- bounds
\* GameBoard(width, height): the boards of the model.
Width == 4
Height == 4
\* run_match(max_turns): the caps the model draws from are 0..MaxTurnCap.
MaxTurnCap == 2
\* FigureBank(initial_count): the counts the model draws from are 0..MaxInitialCount.
MaxInitialCount == 2
\* The model uses the first NumTypes entries of the source's type list.
NumTypes == 3

None == "None"

\* ------------------------------------------------------------- bank.py
AllTypes == <<"I", "O", "T", "S", "Z", "L", "J">>

TETROMINO_TYPES == SubSeq(AllTypes, 1, NumTypes)

TypeSet == {TETROMINO_TYPES[i] : i \in 1..Len(TETROMINO_TYPES)}

FigureBank(initial_count) == [t \in TypeSet |-> initial_count]

\* A variant of get_piece that draws without looking at the count.
get_piece_Unchecked(bk, piece_type) ==
    IF piece_type \notin DOMAIN bk
    THEN [bank |-> bk, ok |-> FALSE]
    ELSE [bank |-> [bk EXCEPT ![piece_type] = bk[piece_type] - 1], ok |-> TRUE]

\* get_piece: the pair (bank after the call, returned flag).
get_piece(bk, piece_type) ==
    IF piece_type \notin DOMAIN bk
    THEN [bank |-> bk, ok |-> FALSE]
    ELSE IF bk[piece_type] > 0
         THEN [bank |-> [bk EXCEPT ![piece_type] = bk[piece_type] - 1], ok |-> TRUE]
         ELSE [bank |-> bk, ok |-> FALSE]

is_available(bk, piece_type) ==
    piece_type \in DOMAIN bk /\ bk[piece_type] > 0

\* The available types in the fixed order of TETROMINO_TYPES.
get_available_pieces(bk) ==
    SelectSeq(TETROMINO_TYPES, LAMBDA t : bk[t] > 0)

is_empty(bk) == \A t \in DOMAIN bk : bk[t] = 0

SeqRange(s) == {s[i] : i \in 1..Len(s)}

\* get_random_available: the set of values random.choice can produce
\* ({None} when nothing is available).
get_random_available(bk) ==
    LET available == get_available_pieces(bk)
    IN  IF Len(available) > 0 THEN SeqRange(available) ELSE {None}

RECURSIVE SumOver(_, _)
SumOver(f, S) ==
    IF S = {} THEN 0
    ELSE LET e == CHOOSE e \in S : TRUE IN f[e] + SumOver(f, S \ {e})

get_total_remaining(bk) == SumOver(bk, DOMAIN bk)

\* ------------------------------------------------------------- game_engine.py
SHAPES(t) ==
    CASE t = "I" -> << <<1, 1, 1, 1>> >>
      [] t = "O" -> << <<1, 1>>, <<1, 1>> >>
      [] t = "T" -> << <<0, 1, 0>>, <<1, 1, 1>> >>
      [] t = "S" -> << <<0, 1, 1>>, <<1, 1, 0>> >>
      [] t = "Z" -> << <<1, 1, 0>>, <<0, 1, 1>> >>
      [] t = "L" -> << <<1, 0>>, <<1, 0>>, <<1, 1>> >>
      [] t = "J" -> << <<0, 1>>, <<0, 1>>, <<1, 1>> >>

Tetromino(shape_type) ==
    [type |-> shape_type, shape |-> SHAPES(shape_type), rotation |-> 0]

get_width(piece) == IF Len(piece.shape) > 0 THEN Len(piece.shape[1]) ELSE 0

get_height(piece) == Len(piece.shape)

\* A variant of rotate that turns the matrix counter-clockwise.
rotate_CounterClockwise(piece) ==
    LET h == Len(piece.shape)
        w == Len(piece.shape[1])
    IN  [piece EXCEPT
            !.shape = [i \in 1..w |-> [j \in 1..h |-> piece.shape[j][w + 1 - i]]],
            !.rotation = (piece.rotation + 1) % 4]

\* zip(*shape[::-1]): row i of the result is column i of the row-reversed matrix.
rotate(piece) ==
    LET h == Len(piece.shape)
        w == Len(piece.shape[1])
    IN  [piece EXCEPT
            !.shape = [i \in 1..w |-> [j \in 1..h |-> piece.shape[h + 1 - j][i]]],
            !.rotation = (piece.rotation + 1) % 4]

RECURSIVE Rotated(_, _)
\* for _ in range(rotations): piece.rotate()
Rotated(piece, rotations) ==
    IF rotations <= 0 THEN piece ELSE Rotated(rotate(piece), rotations - 1)

\* Tetromino(t) after r calls of rotate(), for every type and r in 0..3.
RotationTable ==
    [t \in SeqRange(AllTypes) |-> [r \in 0..3 |-> Rotated(Tetromino(t), r)]]

EmptyRow(w) == [c \in 1..w |-> 0]

GameBoard(w, h) ==
    [width |-> w, height |-> h,
     grid |-> [r \in 1..h |-> EmptyRow(w)],
     score |-> 0, lines_cleared |-> 0, game_over |-> FALSE]

can_place(board, piece, x, y) ==
    \A row_idx \in 0..(Len(piece.shape) - 1) :
        \A col_idx \in 0..(Len(piece.shape[row_idx + 1]) - 1) :
            piece.shape[row_idx + 1][col_idx + 1] # 0 =>
                LET board_y == y + row_idx
                    board_x == x + col_idx
                IN  /\ ~(board_x < 0 \/ board_x >= board.width \/
                         board_y < 0 \/ board_y >= board.height)
                    /\ board.grid[board_y + 1][board_x + 1] = 0

\* The cell (board_y, board_x) is written by place_piece: it is in bounds and
\* some occupied cell (row_idx, col_idx) of the piece lands on it.
Covers(board, piece, x, y, board_y, board_x) ==
    LET row_idx == board_y - y
        col_idx == board_x - x
    IN  /\ 0 <= row_idx /\ row_idx < Len(piece.shape)
        /\ 0 <= col_idx /\ col_idx < Len(piece.shape[row_idx + 1])
        /\ piece.shape[row_idx + 1][col_idx + 1] # 0
        /\ 0 <= board_y /\ board_y < board.height
        /\ 0 <= board_x /\ board_x < board.width

place_piece(board, piece, x, y) ==
    [board EXCEPT !.grid =
        [r \in 1..Len(board.grid) |->
            [c \in 1..Len(board.grid[r]) |->
                IF Covers(board, piece, x, y, r - 1, c - 1) THEN 1
                ELSE board.grid[r][c]]]]

all(row) == \A c \in 1..Len(row) : row[c] # 0

any(row) == \E c \in 1..Len(row) : row[c] # 0

\* del grid[y]
DelRow(grid, y) ==
    [r \in 1..(Len(grid) - 1) |-> IF r < y + 1 THEN grid[r] ELSE grid[r + 1]]

RECURSIVE ClearRows_Append(_, _, _)
\* A variant of ClearRows that puts the new empty row at the bottom.
ClearRows_Append(grid, lines_to_clear, w) ==
    IF Len(lines_to_clear) = 0 THEN grid
    ELSE ClearRows_Append(DelRow(grid, Head(lines_to_clear)) \o <<EmptyRow(w)>>,
                          Tail(lines_to_clear), w)

RECURSIVE ClearRows(_, _, _)
\* for y in lines_to_clear: del self.grid[y]; self.grid.insert(0, [0] * width)
ClearRows(grid, lines_to_clear, w) ==
    IF Len(lines_to_clear) = 0 THEN grid
    ELSE ClearRows(<<EmptyRow(w)>> \o DelRow(grid, Head(lines_to_clear)),
                   Tail(lines_to_clear), w)

\* A variant of score_table without the default of dict.get.
score_table_NoDefault(num_cleared) ==
    CASE num_cleared = 1 -> 100
      [] num_cleared = 2 -> 300
      [] num_cleared = 3 -> 500
      [] num_cleared = 4 -> 800
      [] OTHER -> 0

score_table(num_cleared) ==
    CASE num_cleared = 1 -> 100
      [] num_cleared = 2 -> 300
      [] num_cleared = 3 -> 500
      [] num_cleared = 4 -> 800
      [] OTHER -> num_cleared * 100

\* clear_lines: the pair (board after the call, returned count).
clear_lines(board) ==
    LET ys == SelectSeq([i \in 1..board.height |-> i - 1],
                        LAMBDA y : all(board.grid[y + 1]))
        num_cleared == Len(ys)
        cleared == [board EXCEPT !.grid = ClearRows(board.grid, ys, board.width)]
    IN  [board |-> IF num_cleared > 0
                   THEN [cleared EXCEPT
                            !.lines_cleared = board.lines_cleared + num_cleared,
                            !.score = board.score + score_table(num_cleared)]
                   ELSE cleared,
         num |-> num_cleared]

\* A variant of garbage_line that leaves no cell empty.
garbage_line_Solid(w, hole_position) ==
    [c \in 1..w |-> 1]

garbage_line(w, hole_position) ==
    [c \in 1..w |-> IF c - 1 = hole_position THEN 0 ELSE 1]

RECURSIVE add_garbage_lines_NoPop(_, _)
\* A variant of add_garbage_lines that appends the garbage rows without
\* removing the top rows.
add_garbage_lines_NoPop(board, holes) ==
    IF Len(holes) = 0 THEN board
    ELSE add_garbage_lines_NoPop(
            [board EXCEPT !.grid =
                board.grid \o <<garbage_line(board.width, Head(holes))>>],
            Tail(holes))

RECURSIVE add_garbage_lines(_, _)
\* holes[i] is the value random.randint(0, width - 1) returns in iteration i;
\* Len(holes) is num_lines.
add_garbage_lines(board, holes) ==
    IF Len(holes) = 0 THEN board
    ELSE add_garbage_lines(
            [board EXCEPT !.grid =
                Tail(board.grid) \o <<garbage_line(board.width, Head(holes))>>],
            Tail(holes))

\* The hole sequences num_lines calls of random.randint can produce.
HoleChoices(board, num_lines) ==
    [1..num_lines -> 0..(board.width - 1)]

is_game_over(board) == any(board.grid[1])

RECURSIVE ColumnHeight(_, _, _)
\* The inner loop of get_height_map for column x, from row y on.
ColumnHeight(board, x, y) ==
    IF y >= board.height THEN 0
    ELSE IF board.grid[y + 1][x + 1] # 0 THEN board.height - y
         ELSE ColumnHeight(board, x, y + 1)

get_height_map(board) ==
    [i \in 1..board.width |-> ColumnHeight(board, i - 1, 0)]

RECURSIVE SeqMax(_, _)
SeqMax(s, i) ==
    IF i = Len(s) THEN s[i]
    ELSE LET m == SeqMax(s, i + 1) IN IF s[i] >= m THEN s[i] ELSE m

get_max_height(board) ==
    LET heights == get_height_map(board)
    IN  IF Len(heights) > 0 THEN SeqMax(heights, 1) ELSE 0

\* ------------------------------------------------------------- ai_agent.py
Strategies == {"greedy", "defensive", "aggressive", "other"}

AIAgent(name, strategy) == [name |-> name, strategy |-> strategy]

_count_potential_lines(board) ==
    Cardinality({y \in 0..(board.height - 1) : all(board.grid[y + 1])})

Abs(n) == IF n < 0 THEN 0 - n ELSE n

RECURSIVE Bumpiness(_, _)
\* sum(abs(heights[i] - heights[i+1]) for i in range(len(heights) - 1)), from i on
Bumpiness(heights, i) ==
    IF i >= Len(heights) - 1 THEN 0
    ELSE Abs(heights[i + 1] - heights[i + 2]) + Bumpiness(heights, i + 1)

\* A variant of Holes that counts only the empty cells directly under a
\* filled cell.
Holes_DirectlyBelow(board) ==
    Cardinality({rc \in (1..(board.height - 1)) \X (0..(board.width - 1)) :
        /\ board.grid[rc[1] + 1][rc[2] + 1] = 0
        /\ board.grid[rc[1]][rc[2] + 1] # 0})

\* The hole loop: empty cells with a filled cell above them in their column.
Holes(board) ==
    Cardinality({rc \in (0..(board.height - 1)) \X (0..(board.width - 1)) :
        /\ board.grid[rc[1] + 1][rc[2] + 1] = 0
        /\ \E row_y \in 0..(rc[1] - 1) : board.grid[row_y + 1][rc[2] + 1] # 0})

\* A variant of _evaluate_position that rewards a tall stack, whatever the
\* strategy tag.
_evaluate_position_TallFirst(ai, board, piece, x, y) ==
    get_max_height(place_piece(board, piece, x, y))

_evaluate_position(ai, board, piece, x, y) ==
    LET test_board == place_piece(
            [GameBoard(board.width, board.height) EXCEPT !.grid = board.grid],
            piece, x, y)
        max_height == get_max_height(test_board)
        heights == get_height_map(test_board)
        bumpiness == Bumpiness(heights, 0)
        holes == Holes(test_board)
    IN  IF ai.strategy = "greedy"
        THEN 0 - max_height * 2 - holes * 5 - bumpiness
        ELSE IF ai.strategy = "defensive"
        THEN 0 - max_height * 3 - holes * 10 - bumpiness * 2
        ELSE IF ai.strategy = "aggressive"
        THEN _count_potential_lines(test_board) * 100 - max_height - holes * 3
        ELSE 0 - max_height - holes

RECURSIVE Drop_Lowest(_, _, _, _)
\* A variant of Drop that goes on below a blocked row: y ends one above the
\* lowest row that admits the piece, or at -1 if no row does.
Drop_Lowest(board, piece, x, y) ==
    IF \E yy \in y..(board.height - 1) : can_place(board, piece, x, yy)
    THEN Drop_Lowest(board, piece, x, y + 1)
    ELSE y - 1

RECURSIVE Drop(_, _, _, _)
\* y = 0; while y < board.height and board.can_place(piece_copy, x, y): y += 1;
\* y -= 1
Drop(board, piece, x, y) ==
    IF y < board.height /\ can_place(board, piece, x, y)
    THEN Drop(board, piece, x, y + 1)
    ELSE y - 1

NoBest == [found |-> FALSE, position |-> <<0, 0, 0>>, score |-> 0]

RECURSIVE Search_LastWins(_, _, _, _, _, _)
\* A variant of Search that compares with >=, so the last of equal scores wins.
Search_LastWins(ai, board, piece, rotation, x, best) ==
    IF rotation >= 4 THEN best
    ELSE LET piece_copy == RotationTable[piece.type][rotation]
         IN  IF x >= board.width - get_width(piece_copy) + 1
             THEN Search_LastWins(ai, board, piece, rotation + 1, 0, best)
             ELSE LET y == Drop(board, piece_copy, x, 0)
                      score == _evaluate_position(ai, board, piece_copy, x, y)
                      next_best ==
                        IF y >= 0 /\ can_place(board, piece_copy, x, y)
                        THEN IF ~best.found \/ score >= best.score
                             THEN [found |-> TRUE,
                                   position |-> <<x, y, rotation>>,
                                   score |-> score]
                             ELSE best
                        ELSE best
                  IN  CHOOSE result \in
                          {Search_LastWins(ai, board, piece, rotation, x + 1, b) :
                              b \in {next_best}} : TRUE

RECURSIVE Search(_, _, _, _, _, _)
\* The two nested loops of decide_placement from (rotation, x) on; best.found
\* is FALSE while best_position is None and best_score is -inf. next_best is
\* best after the loop body; the one-element set hands its value, not its
\* defining expression, to the next iteration, so that each loop body is
\* evaluated once and before the next one (on a 10-wide board too).
Search(ai, board, piece, rotation, x, best) ==
    IF rotation >= 4 THEN best
    ELSE LET piece_copy == RotationTable[piece.type][rotation]
         IN  IF x >= board.width - get_width(piece_copy) + 1
             THEN Search(ai, board, piece, rotation + 1, 0, best)
             ELSE LET y == Drop(board, piece_copy, x, 0)
                      score == _evaluate_position(ai, board, piece_copy, x, y)
                      next_best ==
                        IF y >= 0 /\ can_place(board, piece_copy, x, y)
                        THEN IF ~best.found \/ score > best.score
                             THEN [found |-> TRUE,
                                   position |-> <<x, y, rotation>>,
                                   score |-> score]
                             ELSE best
                        ELSE best
                  IN  CHOOSE result \in
                          {Search(ai, board, piece, rotation, x + 1, b) :
                              b \in {next_best}} : TRUE

\* A variant of decide_placement whose fallback is the left column.
decide_placement_LeftFallback(ai, board, piece) ==
    LET best == Search(ai, board, piece, 0, 0, NoBest)
    IN  IF best.found THEN best.position
        ELSE <<0, 0, 0>>

decide_placement(ai, board, piece) ==
    LET best == Search(ai, board, piece, 0, 0, NoBest)
    IN  IF best.found THEN best.position
        ELSE <<board.width \div 2, 0, 0>>

\* A variant of choose_attack_piece whose preferred lists are not filtered by
\* availability.
choose_attack_piece_Unfiltered(ai, bk) ==
    LET available == SeqRange(get_available_pieces(bk))
    IN  IF available = {} THEN {None}
        ELSE IF ai.strategy = "aggressive"
        THEN {"T", "L", "J"} \cap DOMAIN bk
        ELSE IF ai.strategy = "defensive"
        THEN {"I", "O"} \cap DOMAIN bk
        ELSE available

\* choose_attack_piece: the set of values it can return ({None} when the bank
\* has nothing available).
choose_attack_piece(ai, bk) ==
    LET available == SeqRange(get_available_pieces(bk))
        difficult_available == {"T", "L", "J"} \cap available
        easy_available == {"I", "O"} \cap available
    IN  IF available = {} THEN {None}
        ELSE IF ai.strategy = "aggressive" /\ difficult_available # {}
        THEN difficult_available
        ELSE IF ai.strategy = "defensive" /\ easy_available # {}
        THEN easy_available
        ELSE available

\* ------------------------------------------------------------- arena.py
VARIABLES
    ai1, ai2,                 \* the two agents (name, strategy)
    board1, board2,           \* the two grids
    bank,                     \* the shared figure bank
    log,                      \* MatchLog.events
    turn,                     \* the turn counter
    current_piece_ai1, current_piece_ai2,
    garbage_queue_ai1, garbage_queue_ai2,
    max_turns,                \* the argument of run_match
    pc,                       \* the position of run_match
    lines1, attack1,          \* locals of run_match: the result of AI1's play_turn
    lines2, attack2,          \* locals of run_match: the result of AI2's play_turn
    winner,                   \* the value run_match returns
    call, ret                 \* a direct call of one operation: its inputs
                              \* and the history of the object, its result

vars == <<ai1, ai2, board1, board2, bank, log, turn,
          current_piece_ai1, current_piece_ai2,
          garbage_queue_ai1, garbage_queue_ai2,
          max_turns, pc, lines1, attack1, lines2, attack2, winner,
          call, ret>>

log_turn(events, t, player, piece_type, placement, lines_cleared, bank_state, attack_piece) ==
    Append(events,
        [event |-> "turn", turn |-> t, player |-> player,
         piece_type |-> piece_type,
         placement |-> [x |-> placement[1], y |-> placement[2],
                        rotation |-> placement[3]],
         lines_cleared |-> lines_cleared, bank_state |-> bank_state,
         attack_piece |-> attack_piece])

log_game_over(events, w, ai1_score, ai2_score, ai1_lines, ai2_lines) ==
    Append(events,
        [event |-> "game_over", winner |-> w,
         scores |-> [ai1 |-> ai1_score, ai2 |-> ai2_score],
         lines_cleared |-> [ai1 |-> ai1_lines, ai2 |-> ai2_lines]])

\* A variant of _get_next_piece that restocks an exhausted bank before drawing.
_get_next_piece_Restock(bk) ==
    IF is_empty(bk)
    THEN {[bank |-> get_piece([t \in DOMAIN bk |-> 1], piece_type).bank,
           piece |-> piece_type] : piece_type \in DOMAIN bk}
    ELSE {[bank |-> get_piece(bk, piece_type).bank, piece |-> piece_type]
          : piece_type \in get_random_available(bk)}

\* _get_next_piece: the pairs (bank after the call, returned type) it can
\* produce.
_get_next_piece(bk) ==
    UNION {IF piece_type # None
           THEN {[bank |-> get_piece(bk, piece_type).bank, piece |-> piece_type]}
           ELSE {[bank |-> bk, piece |-> t] : t \in SeqRange(TETROMINO_TYPES)}
           : piece_type \in get_random_available(bk)}

\* A variant of play_turn that commits the piece without asking can_place.
play_turn_Unchecked(ai, board, piece_type, bk) ==
    LET position == decide_placement(ai, board, Tetromino(piece_type))
        piece == Rotated(Tetromino(piece_type), position[3])
        cleared == clear_lines(place_piece(board, piece, position[1], position[2]))
    IN  {[board |-> cleared.board, lines |-> cleared.num, attack |-> attack_piece,
          position |-> position, valid |-> TRUE]
         : attack_piece \in IF cleared.num > 0 THEN choose_attack_piece(ai, bk)
                            ELSE {None}}

\* play_turn: the results it can produce; board is the grid after the call,
\* lines and attack the returned lines_cleared and attack_piece.  position
\* and valid record the placement the agent returned and whether it was
\* committed.
play_turn(ai, board, piece_type, bk) ==
    LET position == decide_placement(ai, board, Tetromino(piece_type))
        x == position[1]
        y == position[2]
        piece == Rotated(Tetromino(piece_type), position[3])
    IN  IF can_place(board, piece, x, y)
        THEN LET cleared == clear_lines(place_piece(board, piece, x, y))
             IN  {[board |-> cleared.board, lines |-> cleared.num,
                   attack |-> attack_piece, position |-> position,
                   valid |-> TRUE]
                  : attack_piece \in
                        IF cleared.num > 0 THEN choose_attack_piece(ai, bk)
                        ELSE {None}}
        ELSE {[board |-> [board EXCEPT !.game_over = TRUE], lines |-> 0,
               attack |-> None, position |-> position, valid |-> FALSE]}

\* A variant of SendGarbage that sends one line whatever was cleared.
SendGarbage_OneLine(garbage_queue, lines) ==
    IF lines > 0 THEN garbage_queue + 1 ELSE garbage_queue

\* arena.py 148-149, 182-183: if lines > 0: self.garbage_queue += lines
SendGarbage(garbage_queue, lines) ==
    IF lines > 0 THEN garbage_queue + lines ELSE garbage_queue

\* A variant of ScoreWinner in which equal scores give the first agent.
ScoreWinner_TieToFirst(a1, b1, a2, b2) ==
    IF b1.score >= b2.score THEN a1.name ELSE a2.name

\* arena.py 201: the winner by score when the cap is reached.
ScoreWinner(a1, b1, a2, b2) ==
    IF b1.score > b2.score THEN a1.name ELSE a2.name

\* The strategy pairs the model runs: the default pair of main.py and a pair of
\* the two remaining tags.
StrategyPairs == {<<"greedy", "aggressive">>, <<"defensive", "other">>}

Init ==
    /\ \E sp \in StrategyPairs :
          /\ ai1 = AIAgent("AI-1", sp[1])
          /\ ai2 = AIAgent("AI-2", sp[2])
    /\ board1 = GameBoard(Width, Height)
    /\ board2 = GameBoard(Width, Height)
    /\ \E initial_count \in 0..MaxInitialCount : bank = FigureBank(initial_count)
    /\ log = <<>>
    /\ turn = 0
    /\ current_piece_ai1 = None
    /\ current_piece_ai2 = None
    /\ garbage_queue_ai1 = 0
    /\ garbage_queue_ai2 = 0
    /\ max_turns \in 0..MaxTurnCap
    /\ pc = "start"
    /\ lines1 = 0 /\ attack1 = None
    /\ lines2 = 0 /\ attack2 = None
    /\ winner = None
    /\ call = <<>>
    /\ ret = <<>>

\* arena.py 126-127: the two initial pieces.
Start ==
    /\ pc = "start"
    /\ \E n1 \in _get_next_piece(bank) :
       \E n2 \in _get_next_piece(n1.bank) :
          /\ current_piece_ai1' = n1.piece
          /\ current_piece_ai2' = n2.piece
          /\ bank' = n2.bank
    /\ pc' = "while"
    /\ UNCHANGED <<call, ret, ai1, ai2, board1, board2, log, turn, garbage_queue_ai1,
                   garbage_queue_ai2, max_turns, lines1, attack1, lines2,
                   attack2, winner>>

\* A variant of EnterPass that leaves the turn counter alone.
EnterPass_NoIncrement ==
    /\ pc = "while"
    /\ turn < max_turns
    /\ pc' = "garbage1"
    /\ UNCHANGED <<call, ret, ai1, ai2, board1, board2, bank, log, turn,
                   current_piece_ai1, current_piece_ai2, garbage_queue_ai1,
                   garbage_queue_ai2, max_turns, lines1, attack1, lines2,
                   attack2, winner>>

\* arena.py 129-130: the loop test succeeds.
EnterPass ==
    /\ pc = "while"
    /\ turn < max_turns
    /\ turn' = turn + 1
    /\ pc' = "garbage1"
    /\ UNCHANGED <<call, ret, ai1, ai2, board1, board2, bank, log, current_piece_ai1,
                   current_piece_ai2, garbage_queue_ai1, garbage_queue_ai2,
                   max_turns, lines1, attack1, lines2, attack2, winner>>

\* arena.py 200-206: the loop test fails.
MaxTurnsReached ==
    /\ pc = "while"
    /\ ~(turn < max_turns)
    /\ LET w == ScoreWinner(ai1, board1, ai2, board2)
       IN  /\ log' = log_game_over(log, w, board1.score, board2.score,
                                   board1.lines_cleared, board2.lines_cleared)
           /\ winner' = w
    /\ pc' = "done"
    /\ UNCHANGED <<call, ret, ai1, ai2, board1, board2, bank, turn, current_piece_ai1,
                   current_piece_ai2, garbage_queue_ai1, garbage_queue_ai2,
                   max_turns, lines1, attack1, lines2, attack2>>

\* A variant of Garbage1 that forgets to reset the counter.
Garbage1_KeepsCounter ==
    /\ pc = "garbage1"
    /\ IF garbage_queue_ai1 > 0
       THEN \E holes \in HoleChoices(board1, garbage_queue_ai1) :
               board1' = add_garbage_lines(board1, holes)
       ELSE UNCHANGED board1
    /\ pc' = "turn1"
    /\ UNCHANGED <<call, ret, ai1, ai2, board2, bank, log, turn,
                   current_piece_ai1, current_piece_ai2, garbage_queue_ai1,
                   garbage_queue_ai2, max_turns, lines1, attack1, lines2,
                   attack2, winner>>

\* arena.py 132-135
Garbage1 ==
    /\ pc = "garbage1"
    /\ IF garbage_queue_ai1 > 0
       THEN /\ \E holes \in HoleChoices(board1, garbage_queue_ai1) :
                  board1' = add_garbage_lines(board1, holes)
            /\ garbage_queue_ai1' = 0
       ELSE UNCHANGED <<board1, garbage_queue_ai1>>
    /\ pc' = "turn1"
    /\ UNCHANGED <<call, ret, ai1, ai2, board2, bank, log, turn, current_piece_ai1,
                   current_piece_ai2, garbage_queue_ai2, max_turns, lines1,
                   attack1, lines2, attack2, winner>>

\* arena.py 137-149
Turn1 ==
    /\ pc = "turn1"
    /\ \E r \in play_turn(ai1, board1, current_piece_ai1, bank) :
          /\ board1' = r.board
          /\ lines1' = r.lines
          /\ attack1' = r.attack
          /\ log' = log_turn(log, turn, ai1.name, current_piece_ai1,
                             <<0, 0, 0>>, r.lines, bank, r.attack)
          /\ garbage_queue_ai2' = SendGarbage(garbage_queue_ai2, r.lines)
    /\ pc' = "piece1"
    /\ UNCHANGED <<call, ret, ai1, ai2, board2, bank, turn, current_piece_ai1,
                   current_piece_ai2, garbage_queue_ai1, max_turns, lines2,
                   attack2, winner>>

\* A variant of Piece1 that hands the attack piece to the opponent.
Piece1_ToOpponent ==
    /\ pc = "piece1"
    /\ IF attack1 # None /\ is_available(bank, attack1)
       THEN /\ current_piece_ai2' = attack1
            /\ bank' = get_piece(bank, attack1).bank
            /\ UNCHANGED current_piece_ai1
       ELSE \E n \in _get_next_piece(bank) :
               /\ current_piece_ai1' = n.piece
               /\ bank' = n.bank
               /\ UNCHANGED current_piece_ai2
    /\ pc' = "check1"
    /\ UNCHANGED <<call, ret, ai1, ai2, board1, board2, log, turn,
                   garbage_queue_ai1, garbage_queue_ai2, max_turns, lines1,
                   attack1, lines2, attack2, winner>>

\* arena.py 151-156
Piece1 ==
    /\ pc = "piece1"
    /\ IF attack1 # None /\ is_available(bank, attack1)
       THEN /\ current_piece_ai1' = attack1
            /\ bank' = get_piece(bank, attack1).bank
       ELSE \E n \in _get_next_piece(bank) :
               /\ current_piece_ai1' = n.piece
               /\ bank' = n.bank
    /\ pc' = "check1"
    /\ UNCHANGED <<call, ret, ai1, ai2, board1, board2, log, turn, current_piece_ai2,
                   garbage_queue_ai1, garbage_queue_ai2, max_turns, lines1,
                   attack1, lines2, attack2, winner>>

\* A variant of Lost1 that has no return: the pass goes on with AI2.
Lost1_NoReturn ==
    /\ pc = "check1"
    /\ is_game_over(board1)
    /\ pc' = "garbage2"
    /\ UNCHANGED <<call, ret, ai1, ai2, board1, board2, bank, log, turn,
                   current_piece_ai1, current_piece_ai2, garbage_queue_ai1,
                   garbage_queue_ai2, max_turns, lines1, attack1, lines2,
                   attack2, winner>>

\* arena.py 158-164: AI1 lost.
Lost1 ==
    /\ pc = "check1"
    /\ is_game_over(board1)
    /\ log' = log_game_over(log, ai2.name, board1.score, board2.score,
                            board1.lines_cleared, board2.lines_cleared)
    /\ winner' = ai2.name
    /\ pc' = "done"
    /\ UNCHANGED <<call, ret, ai1, ai2, board1, board2, bank, turn, current_piece_ai1,
                   current_piece_ai2, garbage_queue_ai1, garbage_queue_ai2,
                   max_turns, lines1, attack1, lines2, attack2>>

\* arena.py 159: the check fails and the pass goes on with AI2.
Alive1 ==
    /\ pc = "check1"
    /\ ~is_game_over(board1)
    /\ pc' = "garbage2"
    /\ UNCHANGED <<call, ret, ai1, ai2, board1, board2, bank, log, turn,
                   current_piece_ai1, current_piece_ai2, garbage_queue_ai1,
                   garbage_queue_ai2, max_turns, lines1, attack1, lines2,
                   attack2, winner>>

\* arena.py 166-169
Garbage2 ==
    /\ pc = "garbage2"
    /\ IF garbage_queue_ai2 > 0
       THEN /\ \E holes \in HoleChoices(board2, garbage_queue_ai2) :
                  board2' = add_garbage_lines(board2, holes)
            /\ garbage_queue_ai2' = 0
       ELSE UNCHANGED <<board2, garbage_queue_ai2>>
    /\ pc' = "turn2"
    /\ UNCHANGED <<call, ret, ai1, ai2, board1, bank, log, turn, current_piece_ai1,
                   current_piece_ai2, garbage_queue_ai1, max_turns, lines1,
                   attack1, lines2, attack2, winner>>

\* A variant of Turn2 that queues the cleared lines for the side that cleared
\* them.
Turn2_OwnQueue ==
    /\ pc = "turn2"
    /\ \E r \in play_turn(ai2, board2, current_piece_ai2, bank) :
          /\ board2' = r.board
          /\ lines2' = r.lines
          /\ attack2' = r.attack
          /\ log' = log_turn(log, turn, ai2.name, current_piece_ai2,
                             <<0, 0, 0>>, r.lines, bank, r.attack)
          /\ garbage_queue_ai2' = SendGarbage(garbage_queue_ai2, r.lines)
    /\ pc' = "piece2"
    /\ UNCHANGED <<call, ret, ai1, ai2, board1, bank, turn, current_piece_ai1,
                   current_piece_ai2, garbage_queue_ai1, max_turns, lines1,
                   attack1, winner>>

\* arena.py 171-183
Turn2 ==
    /\ pc = "turn2"
    /\ \E r \in play_turn(ai2, board2, current_piece_ai2, bank) :
          /\ board2' = r.board
          /\ lines2' = r.lines
          /\ attack2' = r.attack
          /\ log' = log_turn(log, turn, ai2.name, current_piece_ai2,
                             <<0, 0, 0>>, r.lines, bank, r.attack)
          /\ garbage_queue_ai1' = SendGarbage(garbage_queue_ai1, r.lines)
    /\ pc' = "piece2"
    /\ UNCHANGED <<call, ret, ai1, ai2, board1, bank, turn, current_piece_ai1,
                   current_piece_ai2, garbage_queue_ai2, max_turns, lines1,
                   attack1, winner>>

\* A variant of Piece2 that takes the attack piece and then draws the next
\* piece as well.
Piece2_DrawsTwice ==
    /\ pc = "piece2"
    /\ IF attack2 # None /\ is_available(bank, attack2)
       THEN \E n \in _get_next_piece(get_piece(bank, attack2).bank) :
               /\ current_piece_ai2' = n.piece
               /\ bank' = n.bank
       ELSE \E n \in _get_next_piece(bank) :
               /\ current_piece_ai2' = n.piece
               /\ bank' = n.bank
    /\ pc' = "check2"
    /\ UNCHANGED <<call, ret, ai1, ai2, board1, board2, log, turn, current_piece_ai1,
                   garbage_queue_ai1, garbage_queue_ai2, max_turns, lines1,
                   attack1, lines2, attack2, winner>>

\* arena.py 185-190
Piece2 ==
    /\ pc = "piece2"
    /\ IF attack2 # None /\ is_available(bank, attack2)
       THEN /\ current_piece_ai2' = attack2
            /\ bank' = get_piece(bank, attack2).bank
       ELSE \E n \in _get_next_piece(bank) :
               /\ current_piece_ai2' = n.piece
               /\ bank' = n.bank
    /\ pc' = "check2"
    /\ UNCHANGED <<call, ret, ai1, ai2, board1, board2, log, turn, current_piece_ai1,
                   garbage_queue_ai1, garbage_queue_ai2, max_turns, lines1,
                   attack1, lines2, attack2, winner>>

\* arena.py 192-198: AI2 lost.
Lost2 ==
    /\ pc = "check2"
    /\ is_game_over(board2)
    /\ log' = log_game_over(log, ai1.name, board1.score, board2.score,
                            board1.lines_cleared, board2.lines_cleared)
    /\ winner' = ai1.name
    /\ pc' = "done"
    /\ UNCHANGED <<call, ret, ai1, ai2, board1, board2, bank, turn, current_piece_ai1,
                   current_piece_ai2, garbage_queue_ai1, garbage_queue_ai2,
                   max_turns, lines1, attack1, lines2, attack2>>

\* arena.py 193: the check fails and the loop test is next.
Alive2 ==
    /\ pc = "check2"
    /\ ~is_game_over(board2)
    /\ pc' = "while"
    /\ UNCHANGED <<call, ret, ai1, ai2, board1, board2, bank, log, turn,
                   current_piece_ai1, current_piece_ai2, garbage_queue_ai1,
                   garbage_queue_ai2, max_turns, lines1, attack1, lines2,
                   attack2, winner>>

Next ==
    \/ Start
    \/ EnterPass
    \/ MaxTurnsReached
    \/ Garbage1
    \/ Turn1
    \/ Piece1
    \/ Lost1
    \/ Alive1
    \/ Garbage2
    \/ Turn2
    \/ Piece2
    \/ Lost2
    \/ Alive2

Spec == Init /\ [][Next]_vars

\* The positions of run_match.
Positions ==
    {"start", "while", "garbage1", "turn1", "piece1", "check1", "garbage2",
     "turn2", "piece2", "check2", "done"}

\* Control leaves the statement it is at.
Advance == \E p \in Positions \ {pc} : pc # "done" /\ pc' = p

\* run_match runs on one thread from its first statement to its return and
\* no statement of it blocks: control never rests for ever at a statement
\* before the return. (Every step of Next moves pc, and Next has a step from
\* every position but "done".)
FairSpec == Spec /\ WF_pc(Advance)

\* ------------------------------------------------------------- properties
\* The rows of a grid that have exactly one empty cell.
OneHole(row) == Cardinality({c \in 1..Len(row) : row[c] = 0}) = 1

\* C1: whenever the placement a side's agent returns is not valid on that
\* side's grid (play_turn then sets the grid's game_over flag), the side has
\* cleared zero lines and the match ends in that pass with the other side as
\* winner: the flag is only ever set between that turn and the check that
\* ends the match, or in the finished match the other side has won.
C1_InvalidPlacementLoses ==
    /\ board1.game_over =>
          \/ pc \in {"piece1", "check1"} /\ lines1 = 0 /\ is_game_over(board1)
          \/ pc = "done" /\ winner = ai2.name
    /\ board2.game_over =>
          \/ pc \in {"piece2", "check2"} /\ lines2 = 0 /\ is_game_over(board2)
          \/ pc = "done" /\ winner = ai1.name

\* C2: when AI1's grid reports game-over at its check, run_match returns
\* AI2's name in that pass and AI2's grid, garbage counter and current piece
\* and the bank are not touched; when AI2's grid reports game-over at its
\* check, run_match returns AI1's name; nothing happens after the return.
C2_LoserEndsPass ==
    [][/\ pc # "done"
       /\ (pc = "check1" /\ is_game_over(board1)) =>
             /\ pc' = "done"
             /\ winner' = ai2.name
             /\ turn' = turn
             /\ UNCHANGED <<board1, board2, bank, garbage_queue_ai1,
                            garbage_queue_ai2, current_piece_ai1,
                            current_piece_ai2>>
       /\ (pc = "check2" /\ is_game_over(board2)) =>
             /\ pc' = "done"
             /\ winner' = ai1.name
             /\ turn' = turn
             /\ UNCHANGED <<board1, board2, bank, garbage_queue_ai1,
                            garbage_queue_ai2, current_piece_ai1,
                            current_piece_ai2>>]_vars

\* AI1 lost in a pass in which AI2 did not play: the last turn record is AI1's.
C2_Witness ==
    /\ pc = "done"
    /\ is_game_over(board1)
    /\ winner = ai2.name
    /\ Len(log) >= 2
    /\ log[Len(log) - 1].player = ai1.name
    /\ log[Len(log) - 1].turn = turn

\* after is before with n garbage rows injected: the rows and their width
\* are kept, the last min(n, height) rows have one empty cell each, the rows
\* above them are the rows n+1.. of before, and nothing else changed.
DrainedInto(before, after, n) ==
    LET h == Len(before.grid)
        k == IF n < h THEN n ELSE h
    IN  /\ Len(after.grid) = h
        /\ \A r \in 1..(h - k) : after.grid[r] = before.grid[r + n]
        /\ \A r \in (h - k + 1)..h :
              Len(after.grid[r]) = before.width /\ OneHole(after.grid[r])
        /\ after = [before EXCEPT !.grid = after.grid]

\* C3: the drain step of a side injects that side's whole pending-garbage
\* counter into that side's own grid and zeroes the counter, leaving the
\* other side's counter and grid alone; the counter is zero whenever the
\* side's placement search is about to run.
C3_DrainBeforeTurn ==
    [][/\ pc = "garbage1" =>
             /\ pc' = "turn1"
             /\ DrainedInto(board1, board1', garbage_queue_ai1)
             /\ garbage_queue_ai1' = 0
             /\ UNCHANGED <<board2, garbage_queue_ai2>>
       /\ pc = "garbage2" =>
             /\ pc' = "turn2"
             /\ DrainedInto(board2, board2', garbage_queue_ai2)
             /\ garbage_queue_ai2' = 0
             /\ UNCHANGED <<board1, garbage_queue_ai1>>
       /\ pc' = "turn1" => pc = "garbage1"
       /\ pc' = "turn2" => pc = "garbage2"]_vars

\* AI1 is about to search after a drain of the lines AI2 cleared in the
\* previous pass.
C3_Witness ==
    /\ pc = "turn1"
    /\ turn >= 2
    /\ lines2 > 0
    /\ garbage_queue_ai1 = 0
    /\ OneHole(board1.grid[Len(board1.grid)])

\* C4: a turn that clears L lines adds exactly L to the opponent's
\* pending-garbage counter and leaves the acting side's counter unchanged
\* (L = 0, the invalid placement included, changes neither); no other step
\* raises a counter.
C4_GarbageRouting ==
    [][/\ pc = "turn1" =>
             LET L == board1'.lines_cleared - board1.lines_cleared
             IN  /\ L >= 0 /\ lines1' = L
                 /\ garbage_queue_ai2' = garbage_queue_ai2 + L
                 /\ garbage_queue_ai1' = garbage_queue_ai1
                 /\ (board1'.game_over /\ ~board1.game_over) => lines1' = 0
       /\ pc = "turn2" =>
             LET L == board2'.lines_cleared - board2.lines_cleared
             IN  /\ L >= 0 /\ lines2' = L
                 /\ garbage_queue_ai1' = garbage_queue_ai1 + L
                 /\ garbage_queue_ai2' = garbage_queue_ai2
                 /\ (board2'.game_over /\ ~board2.game_over) => lines2' = 0
       /\ pc \notin {"turn1", "turn2"} =>
             /\ garbage_queue_ai1' <= garbage_queue_ai1
             /\ garbage_queue_ai2' <= garbage_queue_ai2]_vars

\* AI1 has just cleared lines and they are pending for AI2.
C4_Witness ==
    /\ pc = "piece1"
    /\ lines1 > 0
    /\ garbage_queue_ai2 = lines1
    /\ garbage_queue_ai1 = 0

\* C5: a match that ends with neither grid reporting game-over ended at the
\* cap, and its winner is AI1 iff AI1's score is strictly greater than AI2's
\* (equal scores give AI2); with cap 0 no pass runs.
C5_CapWinner ==
    (pc = "done" /\ ~is_game_over(board1) /\ ~is_game_over(board2)) =>
        /\ turn = max_turns
        /\ winner = IF board1.score > board2.score THEN ai1.name ELSE ai2.name
        /\ max_turns = 0 => Len(log) = 1 /\ winner = ai2.name

\* The cap ended a match that AI1 wins on score.
C5_Witness ==
    /\ pc = "done"
    /\ ~is_game_over(board1) /\ ~is_game_over(board2)
    /\ turn = max_turns /\ max_turns > 0
    /\ board1.score > board2.score
    /\ winner = ai1.name

\* ------------------------------------------------------------- the bank alone
\* The largest initial_count of the banks that are driven directly.
MaxBankCount == 3

\* The match variables while no match runs.
NoMatch ==
    /\ ai1 = AIAgent("AI-1", "greedy")
    /\ ai2 = AIAgent("AI-2", "aggressive")
    /\ board1 = GameBoard(Width, Height)
    /\ board2 = GameBoard(Width, Height)
    /\ log = <<>>
    /\ turn = 0
    /\ current_piece_ai1 = None
    /\ current_piece_ai2 = None
    /\ garbage_queue_ai1 = 0
    /\ garbage_queue_ai2 = 0
    /\ max_turns = 0
    /\ pc = "direct"
    /\ lines1 = 0 /\ attack1 = None
    /\ lines2 = 0 /\ attack2 = None
    /\ winner = None

matchVars == <<ai1, ai2, board1, board2, log, turn, current_piece_ai1,
               current_piece_ai2, garbage_queue_ai1, garbage_queue_ai2,
               max_turns, pc, lines1, attack1, lines2, attack2, winner>>

\* A bank as FigureBank(initial_count) makes it; call keeps initial_count and
\* the number of successful draws of each type, ret the last call.
InitBank ==
    /\ NoMatch
    /\ \E initial_count \in 0..MaxBankCount :
          /\ bank = FigureBank(initial_count)
          /\ call = [initial_count |-> initial_count,
                     draws |-> [t \in TypeSet |-> 0]]
    /\ ret = [op |-> "none", piece_type |-> None, ok |-> FALSE]

\* The piece types a caller passes: the bank's own and one it does not hold.
CallTypes == TypeSet \cup {"X"}

\* bank.get_piece(piece_type)
BankGetPiece ==
    /\ pc = "direct"
    /\ \E piece_type \in CallTypes :
          LET r == get_piece(bank, piece_type)
          IN  /\ bank' = r.bank
              /\ ret' = [op |-> "get_piece", piece_type |-> piece_type,
                         ok |-> r.ok]
              /\ call' = IF r.ok
                         THEN [call EXCEPT !.draws[piece_type] = @ + 1]
                         ELSE call
    /\ UNCHANGED matchVars

\* bank.is_available(piece_type)
BankIsAvailable ==
    /\ pc = "direct"
    /\ \E piece_type \in CallTypes :
          ret' = [op |-> "is_available", piece_type |-> piece_type,
                  ok |-> is_available(bank, piece_type)]
    /\ UNCHANGED <<bank, call>>
    /\ UNCHANGED matchVars

NextBank ==
    \/ BankGetPiece
    \/ BankIsAvailable

BankSpec == InitBank /\ [][NextBank]_vars

\* C6: every count stays >= 0; get_piece(t) returns true and lowers t's
\* count by exactly one, leaving the other counts alone, iff t's count is
\* positive, and otherwise returns false and leaves the bank unchanged; once
\* a type has been drawn initial_count times it is not available and a
\* further draw of it fails.
C6_DrawContract ==
    [][/\ \A t \in TypeSet : bank'[t] >= 0
       /\ (bank' # bank \/ ret'.op = "get_piece") =>
             LET t == ret'.piece_type
             IN  /\ ret'.op = "get_piece"
                 /\ IF t \in TypeSet /\ bank[t] > 0
                    THEN /\ ret'.ok
                         /\ bank'[t] = bank[t] - 1
                         /\ \A u \in TypeSet \ {t} : bank'[u] = bank[u]
                    ELSE /\ ~ret'.ok
                         /\ bank' = bank
       /\ \A t \in TypeSet :
             call'.draws[t] = call'.initial_count =>
                /\ bank'[t] = 0
                /\ ~is_available(bank', t)
                /\ ~get_piece(bank', t).ok
                /\ get_piece(bank', t).bank = bank']_vars

\* The draw after MaxBankCount successful draws of "I" has just failed.
C6_Witness ==
    /\ pc = "direct"
    /\ call.initial_count = MaxBankCount
    /\ call.draws["I"] = MaxBankCount
    /\ ret = [op |-> "get_piece", piece_type |-> "I", ok |-> FALSE]
    /\ bank["I"] = 0

\* C7: during a match no bank count ever increases; once every count is zero
\* the bank stays empty, get_random_available returns None, and each next
\* piece can be any type of TETROMINO_TYPES, taken with the bank unchanged.
C7_NeverReplenished ==
    [][/\ \A t \in TypeSet : bank'[t] <= bank[t]
       /\ is_empty(bank) =>
             /\ bank' = bank
             /\ get_random_available(bank') = {None}
             /\ pc = "piece1" =>
                   /\ current_piece_ai1' \in TypeSet
                   /\ \A t \in TypeSet : ENABLED (Piece1 /\ current_piece_ai1' = t)
             /\ pc = "piece2" =>
                   /\ current_piece_ai2' \in TypeSet
                   /\ \A t \in TypeSet : ENABLED (Piece2 /\ current_piece_ai2' = t)]_vars

\* The bank was not empty at AI1's first turn, is empty now, and AI1's piece
\* of the second pass was drawn from the empty bank.
C7_Witness ==
    /\ pc = "check1"
    /\ turn = 2
    /\ is_empty(bank)
    /\ ~is_empty(log[1].bank_state)
    /\ is_empty(log[Len(log)].bank_state)

C9_GameOverMonotone ==
    [][/\ is_game_over(board1) => is_game_over(board1')
       /\ is_game_over(board2) => is_game_over(board2')]_vars

\* C10: a side whose top row is non-empty right after its garbage drain is
\* detected as game-over before it places another piece: no piece is
\* committed to a grid whose top row is non-empty.
C10_CheckedAfterGarbage ==
    [][/\ (pc = "turn1" /\ is_game_over(board1)) => board1'.grid = board1.grid
       /\ (pc = "turn2" /\ is_game_over(board2)) => board2'.grid = board2.grid]_vars

\* ------------------------------------------------------------- clear_lines alone
\* The grids clear_lines is called on directly are ClearWidth x ClearHeight.
ClearWidth == 2
ClearHeight == 5

\* Every grid of 0/1 cells with h rows of w cells.
Grids(w, h) == [1..h -> [1..w -> {0, 1}]]

\* A board with the given cells, score and lines-cleared total.
BoardWith(grid, score, lines_cleared) ==
    [GameBoard(Len(grid[1]), Len(grid)) EXCEPT
        !.grid = grid, !.score = score, !.lines_cleared = lines_cleared]

\* A board that is either fresh or has already cleared one line, with any
\* cells; ret.board is the board object, call the last call made on it.
InitClear ==
    /\ NoMatch
    /\ bank = FigureBank(0)
    /\ \E grid \in Grids(ClearWidth, ClearHeight) :
       \E totals \in {<<0, 0>>, <<100, 1>>} :
          LET board == BoardWith(grid, totals[1], totals[2])
          IN  /\ call = [op |-> "new", board |-> board]
              /\ ret = [board |-> board, num |-> 0]

\* board.clear_lines(); call.board keeps the board as it was before the call.
BoardClearLines ==
    /\ pc = "direct"
    /\ call' = [op |-> "clear_lines", board |-> ret.board]
    /\ ret' = clear_lines(ret.board)
    /\ UNCHANGED bank
    /\ UNCHANGED matchVars

NextClear == BoardClearLines

ClearSpec == InitClear /\ [][NextClear]_vars

\* The rows of a grid that are completely filled.
FullRows(grid) == {r \in 1..Len(grid) : \A c \in 1..Len(grid[r]) : grid[r][c] = 1}

\* C11: clear_lines removes exactly the completely filled rows, puts as many
\* empty rows at the top, keeps the other rows in their order and returns
\* the number removed; afterwards no row is completely filled, and a
\* repeated clear_lines returns 0 and changes nothing.
C11_ClearLines ==
    call.op = "clear_lines" =>
        LET before == call.board.grid
            after == ret.board.grid
            k == Cardinality(FullRows(before))
            kept == SelectSeq(before, LAMBDA row : \E c \in 1..Len(row) : row[c] = 0)
        IN  /\ ret.num = k
            /\ Len(after) = Len(before)
            /\ \A r \in 1..k : after[r] = [c \in 1..call.board.width |-> 0]
            /\ SubSeq(after, k + 1, Len(after)) = kept
            /\ FullRows(after) = {}
            /\ clear_lines(ret.board) = [board |-> ret.board, num |-> 0]

\* Two filled rows that are not adjacent were removed from between three
\* different partly filled rows.
C11_Witness ==
    /\ call.op = "clear_lines"
    /\ call.board.grid = << <<0, 1>>, <<1, 1>>, <<1, 0>>, <<1, 1>>, <<0, 0>> >>
    /\ ret.num = 2
    /\ ret.board.grid = << <<0, 0>>, <<0, 0>>, <<0, 1>>, <<1, 0>>, <<0, 0>> >>

\* C12: a clear_lines call that removes k rows adds k to the lines-cleared
\* total and adds 100, 300, 500, 800 to the score for k = 1, 2, 3, 4 and
\* k * 100 for any other k > 0; k = 0 changes neither; one full bottom row on
\* an otherwise empty grid returns 1, leaves the grid empty and adds 100.
C12_ClearScore ==
    call.op = "clear_lines" =>
        LET k == ret.num
            h == Len(call.board.grid)
            w == call.board.width
        IN  /\ ret.board.lines_cleared = call.board.lines_cleared + k
            /\ ret.board.score - call.board.score =
                  (CASE k = 0 -> 0
                     [] k = 1 -> 100
                     [] k = 2 -> 300
                     [] k = 3 -> 500
                     [] k = 4 -> 800
                     [] OTHER -> k * 100)
            /\ call.board.grid = [r \in 1..h |-> [c \in 1..w |-> IF r = h THEN 1 ELSE 0]] =>
                  /\ ret.num = 1
                  /\ ret.board.grid = [r \in 1..h |-> [c \in 1..w |-> 0]]
                  /\ ret.board.score = call.board.score + 100

\* Five rows were removed at once from a board that had a score already.
C12_Witness ==
    /\ call.op = "clear_lines"
    /\ call.board.score = 100
    /\ ret.num = 5
    /\ ret.board.score = 600
    /\ ret.board.lines_cleared = 6

\* ------------------------------------------------------------- add_garbage_lines alone
\* The grids add_garbage_lines is called on directly are GarbageWidth x
\* GarbageHeight; num_lines ranges over 0..GarbageHeight + 1.
GarbageWidth == 2
GarbageHeight == 3

\* A fresh board with any cells.
InitGarbage ==
    /\ NoMatch
    /\ bank = FigureBank(0)
    /\ \E grid \in Grids(GarbageWidth, GarbageHeight) :
          LET board == BoardWith(grid, 0, 0)
          IN  /\ call = [op |-> "new", board |-> board, num_lines |-> 0]
              /\ ret = [board |-> board, num |-> 0]

\* board.add_garbage_lines(num_lines), called once on the drawn board;
\* call.board keeps the board as it was before the call.
BoardAddGarbage ==
    /\ pc = "direct"
    /\ call.op = "new"
    /\ \E num_lines \in 0..(GarbageHeight + 1) :
       \E holes \in HoleChoices(ret.board, num_lines) :
          /\ call' = [op |-> "add_garbage_lines", board |-> ret.board,
                      num_lines |-> num_lines]
          /\ ret' = [board |-> add_garbage_lines(ret.board, holes), num |-> 0]
    /\ UNCHANGED bank
    /\ UNCHANGED matchVars

NextGarbage == BoardAddGarbage

GarbageSpec == InitGarbage /\ [][NextGarbage]_vars

\* C13: add_garbage_lines(n) keeps the number of rows and the width of every
\* row, leaves each injected row with exactly one empty cell and all other
\* cells filled, and for n < height moves the previous rows n..height-1 to
\* rows 0..height-n-1 in order, whatever the previous top n rows held; score
\* and lines-cleared total are unchanged.
C13_AddGarbage ==
    call.op = "add_garbage_lines" =>
        LET before == call.board.grid
            after == ret.board.grid
            n == call.num_lines
            h == call.board.height
            w == call.board.width
            injected == IF n < h THEN n ELSE h
        IN  /\ Len(after) = h
            /\ \A r \in 1..h : Len(after[r]) = w
            /\ \A r \in (h - injected + 1)..h :
                  \E hole \in 1..w :
                     \A c \in 1..w : after[r][c] = IF c = hole THEN 0 ELSE 1
            /\ n < h => \A r \in 1..(h - n) : after[r] = before[r + n]
            /\ ret.board.score = call.board.score
            /\ ret.board.lines_cleared = call.board.lines_cleared
            /\ ret.board = [call.board EXCEPT !.grid = after]

\* One line was injected under a grid whose top row was not empty: that row
\* is gone and the two rows below it moved up in order.
C13_Witness ==
    /\ call.op = "add_garbage_lines"
    /\ call.num_lines = 1
    /\ call.board.grid = << <<1, 0>>, <<0, 1>>, <<1, 1>> >>
    /\ ret.board.grid = << <<0, 1>>, <<1, 1>>, <<0, 1>> >>

\* ------------------------------------------------------------- decide_placement alone
\* The grids decide_placement is called on directly are PlaceWidth x
\* PlaceHeight.
PlaceWidth == 3
PlaceHeight == 4

\* Every piece type of SHAPES.
PieceTypes == SeqRange(AllTypes)

\* A fresh board with any cells and an agent of any strategy tag.
InitDecide ==
    /\ NoMatch
    /\ bank = FigureBank(0)
    /\ \E grid \in Grids(PlaceWidth, PlaceHeight) :
       \E strategy \in Strategies :
          /\ call = [op |-> "new", board |-> BoardWith(grid, 0, 0),
                     strategy |-> strategy, piece_type |-> None, calls |-> 0]
          /\ ret = [position |-> <<>>, found |-> FALSE, previous |-> <<>>]

\* agent.decide_placement(board, Tetromino(piece_type)), called once and then
\* once more with the same arguments; ret.found tells whether best_position
\* was set, ret.previous is what the call before returned.
AgentDecide ==
    /\ pc = "direct"
    /\ call.calls < 2
    /\ \E piece_type \in PieceTypes :
          /\ call.op = "decide_placement" => piece_type = call.piece_type
          /\ LET ai == AIAgent("AI", call.strategy)
                 piece == Tetromino(piece_type)
             IN  ret' = [position |-> decide_placement(ai, call.board, piece),
                         found |-> Search(ai, call.board, piece, 0, 0, NoBest).found,
                         previous |-> ret.position]
          /\ call' = [call EXCEPT !.op = "decide_placement",
                                  !.piece_type = piece_type,
                                  !.calls = @ + 1]
    /\ UNCHANGED bank
    /\ UNCHANGED matchVars

NextDecide == AgentDecide

DecideSpec == InitDecide /\ [][NextDecide]_vars

\* The piece of type t after r calls of rotate().
Turned(t, r) == RotationTable[t][r]

\* (x, y, r) is where a hard drop of t, rotated r times, in column x comes to
\* rest: every row from 0 to y admits the piece and row y + 1 does not.
RestsAt(board, t, x, y, r) ==
    /\ \A yy \in 0..y : can_place(board, Turned(t, r), x, yy)
    /\ ~can_place(board, Turned(t, r), x, y + 1)

\* The hard-drop candidates of the search: one per (rotation, x) whose row 0
\* admits the piece.
Candidates(board, t) ==
    {c \in (0..(board.width - 1)) \X (0..(board.height - 1)) \X (0..3) :
        /\ c[1] <= board.width - get_width(Turned(t, c[3]))
        /\ RestsAt(board, t, c[1], c[2], c[3])}

\* C14: whenever some (rotation, x) with 0 <= x <= width - pieceWidth admits
\* the piece at row 0, decide_placement returns a hard-drop resting position
\* (x, y, r): the piece rotated r times can be placed at (x, y') for every
\* y' in 0..y and not at (x, y + 1).
C14_HardDrop ==
    call.op = "decide_placement" =>
        LET board == call.board
            t == call.piece_type
        IN  (\E r \in 0..3 : \E x \in 0..(board.width - get_width(Turned(t, r))) :
                can_place(board, Turned(t, r), x, 0))
            => /\ Len(ret.position) = 3
               /\ ret.position[1] \in 0..(board.width - get_width(Turned(t, ret.position[3])))
               /\ ret.position[3] \in 0..3
               /\ RestsAt(board, t, ret.position[1], ret.position[2], ret.position[3])

\* The returned resting row lies above a blocked row under which a lower row
\* would admit the piece.
C14_Witness ==
    /\ call.op = "decide_placement"
    /\ ret.found
    /\ \E yy \in (ret.position[2] + 2)..(call.board.height - 1) :
          can_place(call.board, Turned(call.piece_type, ret.position[3]),
                    ret.position[1], yy)

\* The heuristic score of a candidate.
CandidateScore(strategy, board, t, c) ==
    _evaluate_position(AIAgent("AI", strategy), board, Turned(t, c[3]), c[1], c[2])

\* Candidate c comes before candidate d in the search order.
SearchedBefore(c, d) == c[3] < d[3] \/ (c[3] = d[3] /\ c[1] < d[1])

\* C15: among all hard-drop candidates decide_placement returns one with the
\* maximum heuristic score, and among those tied for the maximum the first in
\* search order (rotation ascending, then x ascending); a second invocation on
\* the same inputs returns the same triple.
C15_FirstBest ==
    call.op = "decide_placement" =>
        LET cands == Candidates(call.board, call.piece_type)
            score(c) == CandidateScore(call.strategy, call.board, call.piece_type, c)
            returned == score(ret.position)
        IN  /\ cands # {} =>
                  /\ ret.position \in cands
                  /\ \A d \in cands :
                        \/ score(d) < returned
                        \/ /\ score(d) = returned
                           /\ (d = ret.position \/ SearchedBefore(ret.position, d))
            /\ call.calls = 2 => ret.position = ret.previous

\* The second of two calls returned the first of several candidates tied for
\* the maximum.
C15_Witness ==
    /\ call.op = "decide_placement"
    /\ call.calls = 2
    /\ ret.found
    /\ \E d \in Candidates(call.board, call.piece_type) :
          /\ d # ret.position
          /\ CandidateScore(call.strategy, call.board, call.piece_type, d) =
             CandidateScore(call.strategy, call.board, call.piece_type, ret.position)

\* C16: if no rotation and column admits a resting position, decide_placement
\* returns exactly (width // 2, 0, 0), valid or not; the fallback is returned
\* in no other case: whenever a resting position exists, best_position is set
\* and a resting position is returned.
C16_Fallback ==
    call.op = "decide_placement" =>
        LET cands == Candidates(call.board, call.piece_type)
        IN  /\ ret.found <=> cands # {}
            /\ cands = {} => ret.position = <<call.board.width \div 2, 0, 0>>
            /\ cands # {} => ret.position \in cands

\* The fallback was returned for a piece the grid does not admit there.
C16_Witness ==
    /\ call.op = "decide_placement"
    /\ ~ret.found
    /\ ret.position = <<1, 0, 0>>
    /\ call.piece_type = "O"
    /\ ~can_place(call.board, Tetromino("O"), 1, 0)

\* ------------------------------------------------------------- _evaluate_position alone
\* The grids _evaluate_position is called on directly are PlaceWidth x
\* PlaceHeight, as for decide_placement.
\* A board that has already cleared one line, with any cells, and an agent of
\* any strategy tag.
InitEval ==
    /\ NoMatch
    /\ bank = FigureBank(0)
    /\ \E grid \in Grids(PlaceWidth, PlaceHeight) :
       \E strategy \in Strategies :
          LET board == BoardWith(grid, 100, 1)
          IN  /\ call = [op |-> "new", board |-> board, strategy |-> strategy,
                         piece_type |-> None, position |-> <<>>]
              /\ ret = [score |-> 0, board |-> board]

\* agent._evaluate_position(board, piece, x, y) for a piece rotated as
\* decide_placement rotates it and a position the grid admits; ret.board is
\* the board the caller holds after the call.
AgentEvaluate ==
    /\ pc = "direct"
    /\ call.op = "new"
    /\ \E piece_type \in PieceTypes :
       \E rotation \in 0..3 :
          LET piece_copy == RotationTable[piece_type][rotation]
          IN  \E x \in 0..(call.board.width - get_width(piece_copy)) :
              \E y \in 0..(call.board.height - 1) :
                 /\ can_place(call.board, piece_copy, x, y)
                 /\ call' = [call EXCEPT !.op = "_evaluate_position",
                                         !.piece_type = piece_type,
                                         !.position = <<x, y, rotation>>]
                 /\ ret' = [score |-> _evaluate_position(
                                         AIAgent("AI", call.strategy),
                                         call.board, piece_copy, x, y),
                            board |-> call.board]
    /\ UNCHANGED bank
    /\ UNCHANGED matchVars

NextEval == AgentEvaluate

EvalSpec == InitEval /\ [][NextEval]_vars

\* The cells of the grid after t, rotated r times, is placed at (x, y).
PlacedGrid(grid, t, x, y, r) ==
    LET shape == Turned(t, r).shape
    IN  [i \in 1..Len(grid) |->
            [j \in 1..Len(grid[i]) |->
                IF \/ grid[i][j] = 1
                   \/ /\ i - y \in 1..Len(shape)
                      /\ j - x \in 1..Len(shape[1])
                      /\ shape[i - y][j - x] = 1
                THEN 1 ELSE 0]]

\* The height of column j: the distance of its topmost filled cell from the
\* floor, 0 for an empty column.
ColumnTop(grid, j) ==
    LET filled == {i \in 1..Len(grid) : grid[i][j] = 1}
    IN  IF filled = {} THEN 0
        ELSE Len(grid) + 1 - (CHOOSE i \in filled : \A k \in filled : i <= k)

\* C17: the score of a candidate placement is computed on the post-placement
\* grid from h = max column height, H = number of empty cells below the
\* topmost filled cell of their column, B = sum of absolute differences of
\* adjacent column heights and L = number of completely filled rows, as
\* -2h-5H-B for greedy, -3h-10H-2B for defensive, 100L-h-3H for aggressive and
\* -h-H for any other tag; the real grid, its score and its lines-cleared
\* total are unchanged.
C17_Heuristic ==
    call.op = "_evaluate_position" =>
        LET w == call.board.width
            g == PlacedGrid(call.board.grid, call.piece_type, call.position[1],
                            call.position[2], call.position[3])
            h == CHOOSE m \in {ColumnTop(g, j) : j \in 1..w} :
                    \A j \in 1..w : ColumnTop(g, j) <= m
            H == Cardinality({ij \in (1..Len(g)) \X (1..w) :
                    /\ g[ij[1]][ij[2]] = 0
                    /\ Len(g) + 1 - ij[1] < ColumnTop(g, ij[2])})
            B == SumOver([j \in 1..(w - 1) |->
                            Abs(ColumnTop(g, j) - ColumnTop(g, j + 1))],
                         1..(w - 1))
            L == Cardinality(FullRows(g))
        IN  /\ ret.score =
                  (CASE call.strategy = "greedy" -> 0 - 2 * h - 5 * H - B
                     [] call.strategy = "defensive" -> 0 - 3 * h - 10 * H - 2 * B
                     [] call.strategy = "aggressive" -> 100 * L - h - 3 * H
                     [] OTHER -> 0 - h - H)
            /\ ret.board = call.board

\* An aggressive agent scored a T that fills a row above a hole:
\* 100 * 1 - 3 - 3 * 1.
C17_Witness ==
    /\ call.op = "_evaluate_position"
    /\ call.strategy = "aggressive"
    /\ call.piece_type = "T"
    /\ call.position = <<0, 1, 0>>
    /\ call.board.grid = << <<0, 0, 0>>, <<0, 0, 0>>, <<0, 0, 0>>, <<1, 0, 1>> >>
    /\ ret.score = 94
    /\ ret.board.score = 100

\* ------------------------------------------------------------- choose_attack_piece alone
\* A bank with any counts in 0..MaxBankCount and an agent of any strategy tag.
InitAttack ==
    /\ NoMatch
    /\ bank \in [TypeSet -> 0..MaxBankCount]
    /\ \E strategy \in Strategies :
          call = [op |-> "new", strategy |-> strategy, bank |-> bank]
    /\ ret = [piece |-> None]

\* agent.choose_attack_piece(bank); call.bank keeps the bank as it was before
\* the call.
AgentChooseAttack ==
    /\ pc = "direct"
    /\ \E piece \in choose_attack_piece(AIAgent("AI", call.strategy), bank) :
          ret' = [piece |-> piece]
    /\ call' = [call EXCEPT !.op = "choose_attack_piece", !.bank = bank]
    /\ UNCHANGED bank
    /\ UNCHANGED matchVars

NextAttack == AgentChooseAttack

AttackSpec == InitAttack /\ [][NextAttack]_vars

\* The types of the bank with a positive count.
InStock(bk) == {t \in DOMAIN bk : bk[t] > 0}

\* C18: choose_attack_piece changes no count and returns None iff no type is
\* available; otherwise it returns an available type, one of {T, L, J} for an
\* aggressive agent whenever one of them is available and one of {I, O} for a
\* defensive agent whenever one of them is available; in every other case
\* each available type can be returned.
C18_AttackChoice ==
    /\ call.op = "choose_attack_piece" =>
          /\ bank = call.bank
          /\ ret.piece = None <=> InStock(bank) = {}
          /\ ret.piece # None => ret.piece \in InStock(bank)
          /\ (call.strategy = "aggressive" /\ InStock(bank) \cap {"T", "L", "J"} # {})
                => ret.piece \in {"T", "L", "J"}
          /\ (call.strategy = "defensive" /\ InStock(bank) \cap {"I", "O"} # {})
                => ret.piece \in {"I", "O"}
    /\ ~ \/ call.strategy = "aggressive" /\ InStock(bank) \cap {"T", "L", "J"} # {}
         \/ call.strategy = "defensive" /\ InStock(bank) \cap {"I", "O"} # {}
       => \A t \in InStock(bank) : ENABLED (AgentChooseAttack /\ ret'.piece = t)

\* An aggressive agent chose T from a bank that also holds I and O.
C18_Witness ==
    /\ call.op = "choose_attack_piece"
    /\ call.strategy = "aggressive"
    /\ bank["I"] > 0 /\ bank["O"] > 0 /\ bank["T"] > 0
    /\ ret.piece = "T"

\* ------------------------------------------------------------- the event log
\* The record the log holds for a placement (x, y, rotation).
PlacementRecord(position) ==
    [x |-> position[1], y |-> position[2], rotation |-> position[3]]

\* C19: every turn record run_match appends carries the placement
\* (x, y, rotation) that was committed to the acting side's grid in that turn,
\* with that turn's number, acting side, piece type and lines cleared; the
\* records appear in turn order, AI1's before AI2's within a pass.
C19_LogPlacement ==
    [][/\ pc = "turn1" =>
             LET position == decide_placement(ai1, board1, Tetromino(current_piece_ai1))
                 piece == Rotated(Tetromino(current_piece_ai1), position[3])
                 record == log'[Len(log')]
             IN  /\ Len(log') = Len(log) + 1
                 /\ record.event = "turn"
                 /\ record.turn = turn
                 /\ record.player = ai1.name
                 /\ record.piece_type = current_piece_ai1
                 /\ record.lines_cleared = board1'.lines_cleared - board1.lines_cleared
                 /\ Len(log) > 0 => log[Len(log)].turn = turn - 1
                 /\ can_place(board1, piece, position[1], position[2])
                       => record.placement = PlacementRecord(position)
       /\ pc = "turn2" =>
             LET position == decide_placement(ai2, board2, Tetromino(current_piece_ai2))
                 piece == Rotated(Tetromino(current_piece_ai2), position[3])
                 record == log'[Len(log')]
             IN  /\ Len(log') = Len(log) + 1
                 /\ record.event = "turn"
                 /\ record.turn = turn
                 /\ record.player = ai2.name
                 /\ record.piece_type = current_piece_ai2
                 /\ record.lines_cleared = board2'.lines_cleared - board2.lines_cleared
                 /\ log[Len(log)].turn = turn /\ log[Len(log)].player = ai1.name
                 /\ can_place(board2, piece, position[1], position[2])
                       => record.placement = PlacementRecord(position)]_vars

\* ------------------------------------------------------------- rotate alone
\* The number of rotate() calls made on one piece is at most MaxRotateCalls.
MaxRotateCalls == 16

\* A new piece of any type; call.history keeps the piece as it was before
\* each of the last four calls.
InitRotate ==
    /\ NoMatch
    /\ bank = FigureBank(0)
    /\ \E shape_type \in PieceTypes :
          /\ call = [op |-> "new", calls |-> 0, history |-> <<>>]
          /\ ret = [piece |-> Tetromino(shape_type)]

\* piece.rotate()
PieceRotate ==
    /\ pc = "direct"
    /\ call.calls < MaxRotateCalls
    /\ call' = [op |-> "rotate", calls |-> call.calls + 1,
                history |-> IF Len(call.history) < 4
                            THEN Append(call.history, ret.piece)
                            ELSE Append(Tail(call.history), ret.piece)]
    /\ ret' = [piece |-> rotate(ret.piece)]
    /\ UNCHANGED bank
    /\ UNCHANGED matchVars

NextRotate == PieceRotate

RotateSpec == InitRotate /\ [][NextRotate]_vars

\* The number of occupied cells of a matrix.
Occupied(shape) ==
    Cardinality({ij \in (1..Len(shape)) \X (1..Len(shape[1])) :
                    shape[ij[1]][ij[2]] = 1})

\* C20: for each of the 7 canonical shapes rotate() replaces the matrix by the
\* transpose of its row-reversed matrix and advances the rotation index
\* modulo 4; four consecutive calls return matrix and index to their values
\* before the four calls, and every rotation keeps exactly 4 occupied cells.
C20_Rotate ==
    /\ Occupied(ret.piece.shape) = 4
    /\ ret.piece.rotation = call.calls % 4
    /\ call.op = "rotate" =>
          LET before == call.history[Len(call.history)]
              reversed == [i \in 1..Len(before.shape) |->
                              before.shape[Len(before.shape) + 1 - i]]
          IN  /\ Len(ret.piece.shape) = Len(before.shape[1])
              /\ \A i \in 1..Len(ret.piece.shape) :
                    /\ Len(ret.piece.shape[i]) = Len(before.shape)
                    /\ \A j \in 1..Len(before.shape) :
                          ret.piece.shape[i][j] = reversed[j][i]
              /\ ret.piece.rotation = (before.rotation + 1) % 4
              /\ ret.piece.type = before.type
    /\ Len(call.history) = 4 => ret.piece = call.history[1]

\* The fourth call brought an L back to its matrix and index 0 after three
\* matrices that differ from it.
C20_Witness ==
    /\ call.calls = 4
    /\ ret.piece = Tetromino("L")
    /\ \A i \in 2..4 : call.history[i].shape # Tetromino("L").shape
    /\ call.history[4].rotation = 3

\* ------------------------------------------------ the canonical empty grid
\* GameBoard() with its default arguments: width 10 and height 20.
CanonWidth == 10
CanonHeight == 20

\* The number of pieces decided and committed one after the other on the
\* canonical board.
MaxCanonPieces == 2

\* A fresh GameBoard() and an agent of any strategy tag.
InitCanon ==
    /\ NoMatch
    /\ bank = FigureBank(0)
    /\ \E strategy \in Strategies :
          call = [op |-> "new", board |-> GameBoard(CanonWidth, CanonHeight),
                  strategy |-> strategy, piece_type |-> None, pieces |-> 0]
    /\ ret = [position |-> <<>>, game_over |-> FALSE]

\* position = agent.decide_placement(board, Tetromino(piece_type)), for a
\* piece type the bank hands out.
CanonDecide ==
    /\ pc = "direct"
    /\ call.op \in {"new", "is_game_over"}
    /\ call.pieces < MaxCanonPieces
    /\ \E piece_type \in TypeSet :
          /\ call' = [call EXCEPT !.op = "decide_placement",
                                  !.piece_type = piece_type]
          /\ ret' = [ret EXCEPT !.position =
                        decide_placement(AIAgent("AI", call.strategy), call.board,
                                         Tetromino(piece_type))]
    /\ UNCHANGED bank
    /\ UNCHANGED matchVars

\* The piece, rotated as decided, is committed at the decided offset:
\* board.place_piece(piece, x, y).
CanonPlace ==
    /\ pc = "direct"
    /\ call.op = "decide_placement"
    /\ LET piece == Rotated(Tetromino(call.piece_type), ret.position[3])
       IN  call' = [call EXCEPT
                      !.op = "place_piece",
                      !.board = place_piece(call.board, piece, ret.position[1],
                                            ret.position[2]),
                      !.pieces = @ + 1]
    /\ UNCHANGED <<ret, bank>>
    /\ UNCHANGED matchVars

\* board.is_game_over()
CanonIsGameOver ==
    /\ pc = "direct"
    /\ call.op = "place_piece"
    /\ call' = [call EXCEPT !.op = "is_game_over"]
    /\ ret' = [ret EXCEPT !.game_over = is_game_over(call.board)]
    /\ UNCHANGED bank
    /\ UNCHANGED matchVars

NextCanon == CanonDecide \/ CanonPlace \/ CanonIsGameOver

CanonSpec == InitCanon /\ [][NextCanon]_vars

\* The first piece on the canonical board is an I: decided, committed or
\* checked.
FirstIsI ==
    /\ call.piece_type = "I"
    /\ \/ call.op = "decide_placement" /\ call.pieces = 0
       \/ call.op \in {"place_piece", "is_game_over"} /\ call.pieces = 1

\* C21: on the empty 10x20 grid, for every strategy tag, decide_placement
\* for an I piece returns rotation 0 with y = 19 and an x that keeps the four
\* cells inside the bottom row; after that placement is committed the bottom
\* row holds exactly those four cells, nothing else is filled, and
\* is_game_over() is false.
C21_EmptyGridI ==
    FirstIsI =>
        /\ call.op = "decide_placement" =>
              call.board = GameBoard(CanonWidth, CanonHeight)
        /\ ret.position[3] = 0
        /\ ret.position[2] = 19
        /\ ret.position[1] \in 0..(CanonWidth - 4)
        /\ call.op # "decide_placement" =>
              \A r \in 1..CanonHeight : \A c \in 1..CanonWidth :
                  call.board.grid[r][c] # 0 <=>
                      /\ r = CanonHeight
                      /\ c - 1 \in ret.position[1]..(ret.position[1] + 3)
        /\ call.op = "is_game_over" => ~ret.game_over

\* A defensive agent's I piece was committed on the empty grid, lies in the
\* bottom row from column 0 on, and is_game_over() returned false.
C21_Witness ==
    /\ call.op = "is_game_over"
    /\ call.pieces = 1
    /\ call.piece_type = "I"
    /\ call.strategy = "defensive"
    /\ ret.position = <<0, 19, 0>>
    /\ call.board.grid[CanonHeight] = [c \in 1..CanonWidth |-> IF c <= 4 THEN 1 ELSE 0]
    /\ ~ret.game_over

\* ------------------------------------------------- commits during a match
\* The filled cells of a board, as (row, column) pairs.
FilledCells(board) ==
    {rc \in (1..board.height) \X (1..board.width) : board.grid[rc[1]][rc[2]] # 0}

\* What one play_turn step may do to a side's board: with the placement the
\* agent returns, either can_place holds, the four cells of the rotated piece
\* are in bounds and empty, and the board after the step is the board with
\* exactly these four cells filled in and its full rows cleared (lines of
\* them); or can_place fails and no cell changes.
CommitChecked(ai, board, piece_type, after, lines) ==
    LET position == decide_placement(ai, board, Tetromino(piece_type))
        x == position[1]
        y == position[2]
        piece == RotationTable[piece_type][position[3]]
        cells == {rc \in (0..(Len(piece.shape) - 1)) \X (0..(Len(piece.shape[1]) - 1)) :
                     piece.shape[rc[1] + 1][rc[2] + 1] # 0}
        target == {<<y + rc[1] + 1, x + rc[2] + 1>> : rc \in cells}
        committed == [r \in 1..board.height |-> [c \in 1..board.width |->
                         IF <<r, c>> \in target THEN 1 ELSE board.grid[r][c]]]
    IN  IF can_place(board, piece, x, y)
        THEN /\ Cardinality(target) = 4
             /\ target \subseteq (1..board.height) \X (1..board.width)
             /\ target \cap FilledCells(board) = {}
             /\ after.grid = clear_lines([board EXCEPT !.grid = committed]).board.grid
             /\ Cardinality(FilledCells(after)) =
                    Cardinality(FilledCells(board)) + 4 - lines * board.width
             /\ lines = 0 => FilledCells(after) = FilledCells(board) \cup target
        ELSE /\ after.grid = board.grid
             /\ lines = 0

\* C22: during run_match a piece is committed to a match grid only where
\* can_place holds for that grid, piece and offset, so a commit fills
\* exactly 4 cells that were empty and in bounds, changes no other cell and
\* never overlaps a filled cell; where can_place fails nothing is committed.
C22_CommitChecked ==
    [][/\ pc = "turn1" =>
            CommitChecked(ai1, board1, current_piece_ai1, board1', lines1')
       /\ pc = "turn2" =>
            CommitChecked(ai2, board2, current_piece_ai2, board2', lines2')]_vars

\* AI-2 has just committed its second piece on top of its first: eight cells
\* are filled and no row was cleared.
C22_Witness ==
    /\ pc = "piece2"
    /\ turn = 2
    /\ lines2 = 0
    /\ ~board2.game_over
    /\ Cardinality(FilledCells(board2)) = 8

\* ------------------------------------------------------- the two grids
\* The grid of a board has height rows of width cells, each 0 or 1, and the
\* board keeps the size it was made with.
Rectangular(board) ==
    /\ board.width = Width
    /\ board.height = Height
    /\ DOMAIN board.grid = 1..board.height
    /\ \A r \in 1..board.height :
          /\ DOMAIN board.grid[r] = 1..board.width
          /\ \A c \in 1..board.width : board.grid[r][c] \in {0, 1}

\* C23: through every place_piece, clear_lines and add_garbage_lines of a
\* match each grid keeps exactly height rows of exactly width cells, and a
\* step that changes one side's grid (that side's garbage drain or turn)
\* changes no cell of the other side's grid.
C23_GridsKeepShape ==
    /\ Rectangular(board1)
    /\ Rectangular(board2)
    /\ [][/\ Rectangular(board1')
          /\ Rectangular(board2')
          /\ board1'.grid # board1.grid =>
                (pc \in {"garbage1", "turn1"} /\ board2' = board2)
          /\ board2'.grid # board2.grid =>
                (pc \in {"garbage2", "turn2"} /\ board1' = board1)]_vars

\* AI-2's grid has seen all three operations: it cleared a line in the
\* first pass and has just received a garbage row in the second, while
\* AI-1's grid holds cells of its own.
C23_Witness ==
    /\ pc = "turn2"
    /\ turn = 2
    /\ board2.lines_cleared > 0
    /\ lines1 > 0
    /\ OneHole(board2.grid[Height])
    /\ any(board1.grid[Height])

\* ------------------------------------------------------------ termination
\* The positions of the game_over records in the log.
TerminalRecords == {i \in 1..Len(log) : log[i].event = "game_over"}

\* run_match has returned: a grid reports game-over or the counter is at the
\* cap, the winner is one of the two names, and the log ends with its only
\* game_over record, which names the winner.
Finished ==
    /\ is_game_over(board1) \/ is_game_over(board2) \/ turn = max_turns
    /\ winner \in {ai1.name, ai2.name}
    /\ TerminalRecords = {Len(log)}
    /\ log[Len(log)].winner = winner

\* C24: run_match(max_turns) always terminates: the turn counter grows by
\* exactly one when a pass is entered and at no other step, and never
\* exceeds max_turns; the match ends because a grid reported game-over or
\* the counter reached the cap; the returned winner is one of the two
\* agents' names; and exactly one game_over record is appended to the log,
\* as its last entry, naming the returned winner. Before the return there
\* is no winner and no game_over record, and nothing happens after it.
C24_Terminates ==
    /\ <>(pc = "done")
    /\ [](turn \in 0..max_turns)
    /\ [](pc = "done" => Finished)
    /\ [](pc # "done" => (winner = None /\ TerminalRecords = {}))
    /\ [][/\ pc # "done"
          /\ turn' = IF pc = "while" /\ pc' # "done" THEN turn + 1 ELSE turn
          /\ (pc = "check2" /\ pc' = "while") =>
                Len(SelectSeq(log, LAMBDA e : e.event = "turn" /\ e.turn = turn)) = 2]_vars

\* A match of two passes ran to the cap: four turn records, then the
\* game_over record naming AI-1, whose score is higher.
C24_Witness ==
    /\ pc = "done"
    /\ turn = 2
    /\ max_turns = 2
    /\ ~is_game_over(board1)
    /\ ~is_game_over(board2)
    /\ Len(log) = 5
    /\ TerminalRecords = {5}
    /\ winner = ai1.name
    /\ log[5].winner = ai1.name
    /\ board1.score > board2.score

\* --------------------------------------------------------- pool accounting
\* The side-turns whose next piece has been taken: every turn record but the
\* one of a turn whose next-piece step is still to come.
SideTurns ==
    Len(SelectSeq(log, LAMBDA e : e.event = "turn"))
        - (IF pc \in {"piece1", "piece2"} THEN 1 ELSE 0)

Max0(n) == IF n < 0 THEN 0 ELSE n

\* bank' is bank with one piece of one type taken.
OneTaken ==
    \E t \in TypeSet : bank[t] > 0 /\ bank' = [bank EXCEPT ![t] = @ - 1]

\* C25: every side-turn of run_match is followed by its next-piece step,
\* game-over or invalid placement or not, and that step takes exactly one
\* piece from a non-empty pool, by the attack path or the random draw, never
\* two, and none from an empty pool; no other step but the two initial draws
\* touches the pool or the current pieces. With initial count N per type the
\* pool holds max(0, T*N - 2 - k) pieces after the initial draws and k
\* side-turns, T being the number of types in TETROMINO_TYPES, and each
\* side's current piece is one of these types.
C25_PoolAccounting ==
    /\ \A N \in 0..MaxInitialCount :
          bank = FigureBank(N) =>
             [](pc # "start" =>
                  get_total_remaining(bank) =
                     Max0(Len(TETROMINO_TYPES) * N - 2 - SideTurns))
    /\ [](pc # "start" =>
            {current_piece_ai1, current_piece_ai2} \subseteq SeqRange(TETROMINO_TYPES))
    /\ [][/\ pc = "turn1" => pc' = "piece1"
          /\ pc = "turn2" => pc' = "piece2"
          /\ pc \in {"piece1", "piece2"} =>
                IF is_empty(bank) THEN bank' = bank ELSE OneTaken
          /\ pc = "start" =>
                get_total_remaining(bank') = Max0(get_total_remaining(bank) - 2)
          /\ pc \notin {"start", "piece1", "piece2"} =>
                UNCHANGED <<bank, current_piece_ai1, current_piece_ai2>>
          /\ pc # "piece1" => (pc = "start" \/ UNCHANGED current_piece_ai1)
          /\ pc # "piece2" => (pc = "start" \/ UNCHANGED current_piece_ai2)]_vars

\* AI-2's second turn, its last, had an invalid placement while the pool
\* still held a piece, and its next-piece step took that piece.
C25_Witness ==
    /\ pc = "check2"
    /\ turn = 2
    /\ board2.game_over
    /\ is_game_over(board2)
    /\ log[Len(log)].player = ai2.name
    /\ get_total_remaining(log[Len(log)].bank_state) = 1
    /\ log[Len(log)].bank_state[current_piece_ai2] = 1
    /\ is_empty(bank)

\* ---------------------------------------------------- garbage conservation
RECURSIVE LinesLogged(_, _)
\* The lines the turn records of player, from record i on, report as cleared.
LinesLogged(player, i) ==
    IF i > Len(log) THEN 0
    ELSE (IF log[i].event = "turn" /\ log[i].player = player
          THEN log[i].lines_cleared ELSE 0) + LinesLogged(player, i + 1)

\* The side that played the last turn.
LastPlayer ==
    IF \E i \in 1..Len(log) : log[i].event = "turn"
    THEN log[CHOOSE i \in 1..Len(log) :
                /\ log[i].event = "turn"
                /\ \A j \in (i + 1)..Len(log) : log[j].event # "turn"].player
    ELSE None

\* The rows injected into a side's grid so far: what the other side cleared
\* in all, less what is still pending for this side.
Injected1 == board2.lines_cleared - garbage_queue_ai1
Injected2 == board1.lines_cleared - garbage_queue_ai2

\* C26: garbage is conserved. Every line a side clears is added to the
\* other side's pending counter in the same step, a counter goes down only
\* in its own side's drain, which injects exactly that many one-hole rows
\* into that side's grid, and nothing else injects a row; so at every point
\* the lines A cleared in all are the rows injected into B's grid plus B's
\* pending counter. What is pending is what the other side cleared in its
\* last turn, if that turn came after this side's last drain; the counters
\* are never negative, and the lines a side clears are never queued for or
\* injected into its own grid.
C26_GarbageConserved ==
    /\ [](/\ garbage_queue_ai1 >= 0 /\ garbage_queue_ai2 >= 0
          /\ Injected1 >= 0 /\ Injected2 >= 0
          /\ board1.lines_cleared = LinesLogged(ai1.name, 1)
          /\ board2.lines_cleared = LinesLogged(ai2.name, 1)
          /\ garbage_queue_ai2 =
                IF pc \in {"piece1", "check1", "garbage2"} \/
                   (pc = "done" /\ LastPlayer = ai1.name)
                THEN lines1 ELSE 0
          /\ garbage_queue_ai1 =
                IF pc \in {"piece2", "check2", "while", "garbage1"} \/
                   (pc = "done" /\ LastPlayer = ai2.name)
                THEN lines2 ELSE 0)
    /\ [][/\ Injected1' - Injected1 = IF pc = "garbage1" THEN garbage_queue_ai1 ELSE 0
          /\ Injected2' - Injected2 = IF pc = "garbage2" THEN garbage_queue_ai2 ELSE 0
          /\ pc = "garbage1" =>
                /\ DrainedInto(board1, board1', Injected1' - Injected1)
                /\ board2.lines_cleared >= Injected1'
          /\ pc = "garbage2" =>
                /\ DrainedInto(board2, board2', Injected2' - Injected2)
                /\ board1.lines_cleared >= Injected2'
          /\ pc = "turn1" =>
                /\ garbage_queue_ai1' = garbage_queue_ai1
                /\ board1'.lines_cleared - board1.lines_cleared =
                      garbage_queue_ai2' - garbage_queue_ai2
                /\ Cardinality(FilledCells(board1')) <=
                      Cardinality(FilledCells(board1)) + 4
          /\ pc = "turn2" =>
                /\ garbage_queue_ai2' = garbage_queue_ai2
                /\ board2'.lines_cleared - board2.lines_cleared =
                      garbage_queue_ai1' - garbage_queue_ai1
                /\ Cardinality(FilledCells(board2')) <=
                      Cardinality(FilledCells(board2)) + 4]_vars

\* AI-1 cleared a line in each pass and AI-2 one in the first: both of
\* AI-1's rows have been injected into AI-2's grid, AI-2's row into AI-1's
\* grid, and nothing is pending.
C26_Witness ==
    /\ pc = "turn2"
    /\ turn = 2
    /\ board1.lines_cleared = 2
    /\ board2.lines_cleared = 1
    /\ Injected2 = 2
    /\ Injected1 = 1
    /\ garbage_queue_ai1 = 0
    /\ garbage_queue_ai2 = 0

\* --------------------------------------------- the graphical front end
\* run_pygame_mode drives the same Arena one pass per timer tick. winner is
\* its local of that name and is None while its game_over flag is False
\* (the two are set together); its turn limit, 1000 in the source, is
\* max_turns here and is drawn from 1..MaxTurnCap like the cap run_match is
\* compared with. Pausing and quitting are left out.
StepInit ==
    /\ \E sp \in StrategyPairs :
          /\ ai1 = AIAgent("AI-1", sp[1])
          /\ ai2 = AIAgent("AI-2", sp[2])
    /\ board1 = GameBoard(Width, Height)
    /\ board2 = GameBoard(Width, Height)
    /\ \E initial_count \in 0..MaxInitialCount : bank = FigureBank(initial_count)
    /\ log = <<>>
    /\ turn = 0
    /\ current_piece_ai1 = None
    /\ current_piece_ai2 = None
    /\ garbage_queue_ai1 = 0
    /\ garbage_queue_ai2 = 0
    /\ max_turns \in 1..MaxTurnCap
    /\ pc = "start"
    /\ lines1 = 0 /\ attack1 = None
    /\ lines2 = 0 /\ attack2 = None
    /\ winner = None
    /\ call = <<>>
    /\ ret = <<>>

\* main.py 112-113: the two initial pieces.
StepStart ==
    /\ pc = "start"
    /\ \E n1 \in _get_next_piece(bank) :
       \E n2 \in _get_next_piece(n1.bank) :
          /\ current_piece_ai1' = n1.piece
          /\ current_piece_ai2' = n2.piece
          /\ bank' = n2.bank
    /\ pc' = "while"
    /\ UNCHANGED <<call, ret, ai1, ai2, board1, board2, log, turn,
                   garbage_queue_ai1, garbage_queue_ai2, max_turns, lines1,
                   attack1, lines2, attack2, winner>>

\* main.py 204-208: a tick while the game is not over starts a pass.
StepTick ==
    /\ pc = "while"
    /\ winner = None
    /\ turn' = turn + 1
    /\ pc' = "garbage1"
    /\ UNCHANGED <<call, ret, ai1, ai2, board1, board2, bank, log,
                   current_piece_ai1, current_piece_ai2, garbage_queue_ai1,
                   garbage_queue_ai2, max_turns, lines1, attack1, lines2,
                   attack2, winner>>

\* main.py 211-213: the pending garbage of AI1 is injected and zeroed.
StepGarbage1 ==
    /\ pc = "garbage1"
    /\ IF garbage_queue_ai1 > 0
       THEN /\ \E holes \in HoleChoices(board1, garbage_queue_ai1) :
                  board1' = add_garbage_lines(board1, holes)
            /\ garbage_queue_ai1' = 0
       ELSE UNCHANGED <<board1, garbage_queue_ai1>>
    /\ pc' = "turn1"
    /\ UNCHANGED <<call, ret, ai1, ai2, board2, bank, log, turn,
                   current_piece_ai1, current_piece_ai2, garbage_queue_ai2,
                   max_turns, lines1, attack1, lines2, attack2, winner>>

\* main.py 215-220: play_turn and the garbage it sends; nothing is logged.
StepTurn1 ==
    /\ pc = "turn1"
    /\ \E r \in play_turn(ai1, board1, current_piece_ai1, bank) :
          /\ board1' = r.board
          /\ lines1' = r.lines
          /\ attack1' = r.attack
          /\ garbage_queue_ai2' = SendGarbage(garbage_queue_ai2, r.lines)
    /\ pc' = "piece1"
    /\ UNCHANGED <<call, ret, ai1, ai2, board2, bank, log, turn,
                   current_piece_ai1, current_piece_ai2, garbage_queue_ai1,
                   max_turns, lines2, attack2, winner>>

\* main.py 222-226
StepPiece1 ==
    /\ pc = "piece1"
    /\ IF attack1 # None /\ is_available(bank, attack1)
       THEN /\ current_piece_ai1' = attack1
            /\ bank' = get_piece(bank, attack1).bank
       ELSE \E n \in _get_next_piece(bank) :
               /\ current_piece_ai1' = n.piece
               /\ bank' = n.bank
    /\ pc' = "check1"
    /\ UNCHANGED <<call, ret, ai1, ai2, board1, board2, log, turn,
                   current_piece_ai2, garbage_queue_ai1, garbage_queue_ai2,
                   max_turns, lines1, attack1, lines2, attack2, winner>>

\* main.py 228-230: game_over = True; winner = "AI-2". The rest of the
\* tick is skipped up to the turn-limit check.
StepLost1 ==
    /\ pc = "check1"
    /\ is_game_over(board1)
    /\ winner' = "AI-2"
    /\ pc' = "limit"
    /\ UNCHANGED <<call, ret, ai1, ai2, board1, board2, bank, log, turn,
                   current_piece_ai1, current_piece_ai2, garbage_queue_ai1,
                   garbage_queue_ai2, max_turns, lines1, attack1, lines2,
                   attack2>>

\* main.py 233: not game_over, the tick goes on with AI2.
StepAlive1 ==
    /\ pc = "check1"
    /\ ~is_game_over(board1)
    /\ pc' = "garbage2"
    /\ UNCHANGED <<call, ret, ai1, ai2, board1, board2, bank, log, turn,
                   current_piece_ai1, current_piece_ai2, garbage_queue_ai1,
                   garbage_queue_ai2, max_turns, lines1, attack1, lines2,
                   attack2, winner>>

\* main.py 234-236: the pending garbage of AI2 is injected and zeroed.
StepGarbage2 ==
    /\ pc = "garbage2"
    /\ IF garbage_queue_ai2 > 0
       THEN /\ \E holes \in HoleChoices(board2, garbage_queue_ai2) :
                  board2' = add_garbage_lines(board2, holes)
            /\ garbage_queue_ai2' = 0
       ELSE UNCHANGED <<board2, garbage_queue_ai2>>
    /\ pc' = "turn2"
    /\ UNCHANGED <<call, ret, ai1, ai2, board1, bank, log, turn,
                   current_piece_ai1, current_piece_ai2, garbage_queue_ai1,
                   max_turns, lines1, attack1, lines2, attack2, winner>>

\* main.py 238-243: play_turn and the garbage it sends; nothing is logged.
StepTurn2 ==
    /\ pc = "turn2"
    /\ \E r \in play_turn(ai2, board2, current_piece_ai2, bank) :
          /\ board2' = r.board
          /\ lines2' = r.lines
          /\ attack2' = r.attack
          /\ garbage_queue_ai1' = SendGarbage(garbage_queue_ai1, r.lines)
    /\ pc' = "piece2"
    /\ UNCHANGED <<call, ret, ai1, ai2, board1, bank, log, turn,
                   current_piece_ai1, current_piece_ai2, garbage_queue_ai2,
                   max_turns, lines1, attack1, winner>>

\* main.py 245-249
StepPiece2 ==
    /\ pc = "piece2"
    /\ IF attack2 # None /\ is_available(bank, attack2)
       THEN /\ current_piece_ai2' = attack2
            /\ bank' = get_piece(bank, attack2).bank
       ELSE \E n \in _get_next_piece(bank) :
               /\ current_piece_ai2' = n.piece
               /\ bank' = n.bank
    /\ pc' = "check2"
    /\ UNCHANGED <<call, ret, ai1, ai2, board1, board2, log, turn,
                   current_piece_ai1, garbage_queue_ai1, garbage_queue_ai2,
                   max_turns, lines1, attack1, lines2, attack2, winner>>

\* main.py 251-253: game_over = True; winner = "AI-1". The rest of the
\* tick is skipped up to the turn-limit check.
StepLost2 ==
    /\ pc = "check2"
    /\ is_game_over(board2)
    /\ winner' = "AI-1"
    /\ pc' = "limit"
    /\ UNCHANGED <<call, ret, ai1, ai2, board1, board2, bank, log, turn,
                   current_piece_ai1, current_piece_ai2, garbage_queue_ai1,
                   garbage_queue_ai2, max_turns, lines1, attack1, lines2,
                   attack2>>

\* main.py 251: the check fails and the turn-limit check is next.
StepAlive2 ==
    /\ pc = "check2"
    /\ ~is_game_over(board2)
    /\ pc' = "limit"
    /\ UNCHANGED <<call, ret, ai1, ai2, board1, board2, bank, log, turn,
                   current_piece_ai1, current_piece_ai2, garbage_queue_ai1,
                   garbage_queue_ai2, max_turns, lines1, attack1, lines2,
                   attack2, winner>>

\* main.py 256-258: the limit is reached; game_over = True and the winner is
\* set by score, whatever it was.
StepLimitReached ==
    /\ pc = "limit"
    /\ turn >= max_turns
    /\ winner' = IF board1.score > board2.score THEN "AI-1" ELSE "AI-2"
    /\ pc' = "done"
    /\ UNCHANGED <<call, ret, ai1, ai2, board1, board2, bank, log, turn,
                   current_piece_ai1, current_piece_ai2, garbage_queue_ai1,
                   garbage_queue_ai2, max_turns, lines1, attack1, lines2,
                   attack2>>

\* main.py 256: the limit is not reached; the loop waits for the next tick,
\* or has ended if game_over was set in this tick.
StepLimitNotReached ==
    /\ pc = "limit"
    /\ ~(turn >= max_turns)
    /\ pc' = IF winner # None THEN "done" ELSE "while"
    /\ UNCHANGED <<call, ret, ai1, ai2, board1, board2, bank, log, turn,
                   current_piece_ai1, current_piece_ai2, garbage_queue_ai1,
                   garbage_queue_ai2, max_turns, lines1, attack1, lines2,
                   attack2, winner>>

StepNext ==
    \/ StepStart
    \/ StepTick
    \/ StepGarbage1
    \/ StepTurn1
    \/ StepPiece1
    \/ StepLost1
    \/ StepAlive1
    \/ StepGarbage2
    \/ StepTurn2
    \/ StepPiece2
    \/ StepLost2
    \/ StepAlive2
    \/ StepLimitReached
    \/ StepLimitNotReached

StepSpec == StepInit /\ [][StepNext]_vars

\* Where run_match is when the stepwise loop is at pc: once a winner is set
\* run_match has returned, and the turn-limit check of a tick without a
\* winner is run_match's loop test.
MatchPosition(p, w) ==
    IF p = "limit" THEN (IF w # None THEN "done" ELSE "while") ELSE p

\* What a match computes besides its winner: the grids, the pool, the
\* garbage counters, the turn counter and the current pieces.
MatchData ==
    <<board1, board2, bank, garbage_queue_ai1, garbage_queue_ai2, turn,
      current_piece_ai1, current_piece_ai2>>

\* Turn1 and Turn2 of run_match but for their log records.
TurnUnlogged ==
    \/ /\ pc = "turn1"
       /\ pc' = "piece1"
       /\ \E r \in play_turn(ai1, board1, current_piece_ai1, bank) :
             /\ board1' = r.board
             /\ garbage_queue_ai2' = SendGarbage(garbage_queue_ai2, r.lines)
             /\ <<lines1', attack1'>> = <<r.lines, r.attack>>
       /\ UNCHANGED <<board2, bank, garbage_queue_ai1, turn, current_piece_ai1,
                      current_piece_ai2, winner, lines2, attack2>>
    \/ /\ pc = "turn2"
       /\ pc' = "piece2"
       /\ \E r \in play_turn(ai2, board2, current_piece_ai2, bank) :
             /\ board2' = r.board
             /\ garbage_queue_ai1' = SendGarbage(garbage_queue_ai1, r.lines)
             /\ <<lines2', attack2'>> = <<r.lines, r.attack>>
       /\ UNCHANGED <<board1, bank, garbage_queue_ai2, turn, current_piece_ai1,
                      current_piece_ai2, winner, lines1, attack1>>

\* A step of the stepwise loop is a step of run_match, the log aside, or a
\* step run_match does not take and that changes nothing of the match.
MatchStep ==
    LET p == MatchPosition(pc, winner)
        q == MatchPosition(pc', winner')
    IN  \/ Start
        \/ EnterPass
        \/ Garbage1
        \/ Piece1
        \/ Alive1
        \/ Garbage2
        \/ Piece2
        \/ TurnUnlogged
        \/ /\ p = "check1" /\ is_game_over(board1)
           /\ q = "done" /\ winner' = ai2.name
           /\ UNCHANGED MatchData
        \/ /\ p = "check2" /\ is_game_over(board2)
           /\ q = "done" /\ winner' = ai1.name
           /\ UNCHANGED MatchData
        \/ /\ p = "check2" /\ ~is_game_over(board2)
           /\ q = "while"
           /\ UNCHANGED <<MatchData, winner>>
        \/ /\ p = "while" /\ ~(turn < max_turns)
           /\ q = "done" /\ winner' = ScoreWinner(ai1, board1, ai2, board2)
           /\ UNCHANGED MatchData
        \/ /\ p = q
           /\ UNCHANGED <<MatchData, winner>>

\* C27: the stepwise turn loop of the graphical front end is equivalent to
\* run_match with the same cap: every step of the loop is a step of
\* run_match or leaves the match as it is, so that both go through the same
\* grid, pool and garbage-counter states and declare the same winner, also
\* when a grid reports game-over during the last turn the cap allows.
C27_StepwiseEquivalent == [][MatchStep]_vars

====
